---- MODULE Spec2Model ----
(***************************************************************************)
(* A model of fluent-jit: the plan Compiler (compile.go), the node         *)
(* classification (jit.go), the AdaptiveSizer (adaptive.go), the Tuner     *)
(* (tune.go), the Flattener, the package-level registry (global.go) and    *)
(* the buffer pool of fluent as these use it.                              *)
(*                                                                         *)
(* Bytes are sequences of tokens: <<"open", tag>>, <<"close", tag>> and    *)
(* <<"text", content>>; the length of a buffer is its number of tokens.    *)
(* Child indices are 0-based as in the Go code; TLA+ sequences are         *)
(* 1-based, so children[idx] of the code is kids[idx + 1] here.            *)
(***************************************************************************)
EXTENDS Integers, Sequences, FiniteSets, TLC

\* ------------------------------------------------------------------ bounds

\* Number of goroutines that call the Compiler concurrently.
NThreads == 2
\* Number of calls (Render, Validate, Configure) the goroutines make in all.
MaxCalls == 2
\* Number of calls the single goroutine of the sequential specification makes.
SeqCalls == 2
\* Largest number of children of a generated node.
MaxKids == 2
\* Calls on the sizer in all, one goroutine.
SizerCalls == 5
\* Calls on the sizer in all, concurrent goroutines.
ConcCalls == 3
\* Number of buffers the buffer pool of fluent ever allocates.
MaxBufs == 2
\* Calls of jit.Tune the goroutines make in all.
TuneCalls == 2
\* Calls of jit.Compile the goroutines make in all.
RegCalls == 2
\* Calls of the package-level functions, one goroutine.
GlobalCalls == 3
\* Calls of Render, with and without a destination, in all.
WriterCalls == 3
\* Plan builds in which the path slices are followed, one goroutine.
WalkCalls == 1
\* Calls on the sizer in all, concurrent goroutines, with the critical
\* sections followed field by field.
LockCalls == 3
\* Calls of UpdateStats in all, concurrent goroutines and no other calls.
StaleCalls == 4
\* Calls of UpdateStats with sizes of any kind before the sizes become constant.
ConstCalls == 2
\* Calls of Render on a Compiler that receives nothing else, one goroutine.
FreshCalls == 4
\* Calls of Flatten, ResetFlatten, NewFlattener and Flattener.Render in all.
FlatCalls == 2

\* The nil *ExecutionPlan, and a plan with its Elements.
NilPlan == [nil |-> TRUE, Elements |-> <<>>]
ExecutionPlan(es) == [nil |-> FALSE, Elements |-> es]

\* ------------------------------------------------------- the Node contract
\* node.Node of github.com/jpl-au/fluent as compile.go and jit.go consume it:
\* Nodes(), RenderBuilder(buf), and for node.Element RenderOpen / RenderClose.
\*   kind "text": *text.Node; dyn is t.Dynamic()
\*   kind "elem": a node.Element; dyn is its node.Dynamic answer
\*   kind "frag": a non-Element container (Fragment)
\*   kind "func": *node.FunctionComponent (re-invoked on every render)
\*   kind "cond": *node.ConditionalBuilder (renders its branch when `on`)

Static(c) == [kind |-> "text", dyn |-> FALSE, on |-> TRUE, tag |-> c, kids |-> <<>>]
Text(c) == [kind |-> "text", dyn |-> TRUE, on |-> TRUE, tag |-> c, kids |-> <<>>]
Elem(tag, ks) == [kind |-> "elem", dyn |-> FALSE, on |-> TRUE, tag |-> tag, kids |-> ks]
DynElem(tag, ks) == [kind |-> "elem", dyn |-> TRUE, on |-> TRUE, tag |-> tag, kids |-> ks]
Fragment(ks) == [kind |-> "frag", dyn |-> FALSE, on |-> TRUE, tag |-> "", kids |-> ks]
Func(ks) == [kind |-> "func", dyn |-> FALSE, on |-> TRUE, tag |-> "", kids |-> ks]
When(c, ks) == [kind |-> "cond", dyn |-> FALSE, on |-> c, tag |-> "", kids |-> ks]
\* No node: the root of a goroutine that has made no call yet.
NoNode == [kind |-> "none", dyn |-> FALSE, on |-> FALSE, tag |-> "", kids |-> <<>>]

\* n.Nodes(): the children a path may descend into. A function component or a
\* conditional builder exposes no children: its result exists only when rendered.
Nodes(n) == IF n.kind \in {"func", "cond"} THEN <<>> ELSE n.kids

RenderOpen(n) == << <<"open", n.tag>> >>
RenderClose(n) == << <<"close", n.tag>> >>

RECURSIVE RenderBuilder(_)
RECURSIVE RenderAll(_, _)
\* The renderings of ks[i..] one after the other.
RenderAll(ks, i) ==
  IF i > Len(ks) THEN <<>> ELSE RenderBuilder(ks[i]) \o RenderAll(ks, i + 1)

\* n.RenderBuilder(buf): the bytes n appends to a buffer.
RenderBuilder(n) ==
  CASE n.kind = "text" -> << <<"text", n.tag>> >>
    [] n.kind = "elem" -> RenderOpen(n) \o RenderAll(n.kids, 1) \o RenderClose(n)
    [] n.kind = "frag" -> RenderAll(n.kids, 1)
    [] n.kind = "func" -> RenderAll(n.kids, 1)
    [] n.kind = "cond" -> IF n.on THEN RenderAll(n.kids, 1) ELSE <<>>

\* ------------------------------------------------------------------ jit.go

\* Faulty variant: a text node's Dynamic() is never consulted.
isDynamicNode_NoText(n) ==
  \/ n.kind \in {"func", "cond"}
  \/ (n.kind = "elem" /\ n.dyn)

\* Faulty variant: every text node counts as dynamic.
isDynamicNode_AllText(n) ==
  \/ n.dyn
  \/ n.kind \in {"func", "cond"}
  \/ n.kind = "text"

\* isDynamicNode looks at one node: its node.Dynamic answer, the always-dynamic
\* kinds of the type switch, and a text node's Dynamic().
isDynamicNode(n) ==
  \/ n.dyn
  \/ n.kind \in {"func", "cond"}
  \/ (n.kind = "text" /\ n.dyn)

\* Faulty variant: only the node and its children are looked at.
isDynamic_OneLevel(n) ==
  \/ isDynamicNode(n)
  \/ \E i \in 1..Len(Nodes(n)) : isDynamicNode(Nodes(n)[i])

RECURSIVE isDynamic(_)
\* isDynamic: the node or any descendant reached through Nodes().
isDynamic(n) ==
  \/ isDynamicNode(n)
  \/ \E i \in 1..Len(Nodes(n)) : isDynamic(Nodes(n)[i])

\* -------------------------------------------------------------- compile.go

StaticContent(b) == [type |-> "StaticContent", Content |-> b, Path |-> <<>>]
DynamicPath(p) == [type |-> "DynamicPath", Content |-> <<>>, Path |-> p]

\* walk's flush of the accumulated static bytes before a dynamic node.
FlushStatic(st) ==
  IF Len(st.buf) > 0
    THEN [buf |-> <<>>, plan |-> Append(st.plan, StaticContent(st.buf))]
    ELSE st

\* for _, child := range children { if isDynamic(child) {...} }
hasDynamicChildren(n) == \E i \in 1..Len(Nodes(n)) : isDynamic(Nodes(n)[i])

RECURSIVE walk(_, _, _)
RECURSIVE walkChildren(_, _, _, _)
\* for i, child := range children { jc.walk(child, ..., append(path, i)) }
walkChildren(children, i, st, path) ==
  IF i >= Len(children) THEN st
  ELSE walkChildren(children, i + 1,
                    walk(children[i + 1], st, Append(path, i)), path)

\* Faulty variant: the static bytes are cut into an element after every
\* static subtree.
walk_FlushEach(n, st, path) ==
  IF isDynamicNode(n)
    THEN LET f == FlushStatic(st)
         IN  [f EXCEPT !.plan = Append(f.plan, DynamicPath(path))]
  ELSE IF hasDynamicChildren(n)
    THEN IF n.kind = "elem"
           THEN LET o == [st EXCEPT !.buf = st.buf \o RenderOpen(n)]
                    k == walkChildren(Nodes(n), 0, o, path)
                IN  [k EXCEPT !.buf = k.buf \o RenderClose(n)]
           ELSE walkChildren(Nodes(n), 0, st, path)
  ELSE FlushStatic([st EXCEPT !.buf = st.buf \o RenderBuilder(n)])

\* Faulty variant: the closing tag is written before the children are walked.
walk_CloseFirst(n, st, path) ==
  IF isDynamicNode(n)
    THEN LET f == FlushStatic(st)
         IN  [f EXCEPT !.plan = Append(f.plan, DynamicPath(path))]
  ELSE IF hasDynamicChildren(n)
    THEN IF n.kind = "elem"
           THEN LET o == [st EXCEPT !.buf = st.buf \o RenderOpen(n)
                                                   \o RenderClose(n)]
                IN  walkChildren(Nodes(n), 0, o, path)
           ELSE walkChildren(Nodes(n), 0, st, path)
  ELSE [st EXCEPT !.buf = st.buf \o RenderBuilder(n)]

\* Faulty variant: after recording a dynamic node the walk goes on into its
\* children.
walk_Recurses(n, st, path) ==
  IF isDynamicNode(n)
    THEN LET f == FlushStatic(st)
         IN  walkChildren(n.kids, 0,
                          [f EXCEPT !.plan = Append(f.plan, DynamicPath(path))],
                          path)
  ELSE IF hasDynamicChildren(n)
    THEN IF n.kind = "elem"
           THEN LET o == [st EXCEPT !.buf = st.buf \o RenderOpen(n)]
                    k == walkChildren(Nodes(n), 0, o, path)
                IN  [k EXCEPT !.buf = k.buf \o RenderClose(n)]
           ELSE walkChildren(Nodes(n), 0, st, path)
  ELSE [st EXCEPT !.buf = st.buf \o RenderBuilder(n)]

\* (jc *Compiler) walk: st is [buf: the static buffer, plan: the elements so far].
walk(n, st, path) ==
  IF isDynamicNode(n)
    THEN LET f == FlushStatic(st)
         IN  [f EXCEPT !.plan = Append(f.plan, DynamicPath(path))]
  ELSE IF hasDynamicChildren(n)
    THEN IF n.kind = "elem"
           THEN LET o == [st EXCEPT !.buf = st.buf \o RenderOpen(n)]
                    k == walkChildren(Nodes(n), 0, o, path)
                IN  [k EXCEPT !.buf = k.buf \o RenderClose(n)]
           ELSE walkChildren(Nodes(n), 0, st, path)
  ELSE [st EXCEPT !.buf = st.buf \o RenderBuilder(n)]

\* Faulty variant: the static bytes left after the walk are never flushed.
BuildPlan_NoFinalFlush(rootNode) ==
  ExecutionPlan(walk(rootNode, [buf |-> <<>>, plan |-> <<>>], <<>>).plan)

\* The plan compile builds: the walk and the flush of trailing static bytes.
BuildPlan(rootNode) ==
  LET st == walk(rootNode, [buf |-> <<>>, plan |-> <<>>], <<>>)
  IN  ExecutionPlan(IF Len(st.buf) > 0
                      THEN Append(st.plan, StaticContent(st.buf))
                      ELSE st.plan)

RECURSIVE Resolve_OffByOne(_, _, _)
\* Faulty variant: the bounds check is idx > len(children).
Resolve_OffByOne(n, path, i) ==
  IF i > Len(path) THEN [status |-> "ok", node |-> n]
  ELSE LET children == Nodes(n)
           idx == path[i]
       IN  IF idx > Len(children) THEN [status |-> "skip", node |-> n]
           ELSE IF idx < 0 \/ idx + 1 > Len(children)
                  THEN [status |-> "panic", node |-> n]
                  ELSE Resolve_OffByOne(children[idx + 1], path, i + 1)

RECURSIVE Resolve(_, _, _)
\* The loop of DynamicPath.Render from position i of the path (1-based): the
\* node reached, or "skip" when an index is not below the number of children.
\* children[idx] outside 0..len-1 is a Go run-time panic.
Resolve(n, path, i) ==
  IF i > Len(path) THEN [status |-> "ok", node |-> n]
  ELSE LET children == Nodes(n)
           idx == path[i]
       IN  IF idx >= Len(children) THEN [status |-> "skip", node |-> n]
           ELSE IF idx < 0 \/ idx + 1 > Len(children)
                  THEN [status |-> "panic", node |-> n]
                  ELSE Resolve(children[idx + 1], path, i + 1)

\* element.Render(root, buf) for one plan element: the status and the bytes it
\* appends.
ElementRender(e, root) ==
  IF e.type = "StaticContent" THEN [status |-> "ok", bytes |-> e.Content]
  ELSE LET r == Resolve(root, e.Path, 1)
       IN  IF r.status = "ok"
             THEN [status |-> "ok", bytes |-> RenderBuilder(r.node)]
             ELSE [status |-> r.status, bytes |-> <<>>]

RECURSIVE Execute(_, _, _, _)
\* for _, element := range plan.Elements { element.Render(root, buf) }
\* acc is [buf, omitted, panic]: omitted records the positions of the elements
\* that returned without writing because their path did not resolve.
Execute(plan, root, i, acc) ==
  IF i > Len(plan.Elements) \/ acc.panic THEN acc
  ELSE LET r == ElementRender(plan.Elements[i], root)
       IN  Execute(plan, root, i + 1,
             [buf |-> acc.buf \o r.bytes,
              omitted |-> IF r.status = "skip" THEN acc.omitted \cup {i}
                          ELSE acc.omitted,
              panic |-> r.status = "panic"])

ExecutePlan(plan, root) ==
  Execute(plan, root, 1, [buf |-> <<>>, omitted |-> {}, panic |-> FALSE])

\* Validate's results: nil, and the ErrStructureMismatch it formats with the
\* path, the depth, the expected child index and the number of children.
NoError == [mismatch |-> FALSE, path |-> <<>>, depth |-> 0, idx |-> 0, children |-> 0]
\* Faulty variant: the expected index and the child count change places.
ErrStructureMismatch_Swapped(path, depth, idx, n) ==
  [mismatch |-> TRUE, path |-> path, depth |-> depth, idx |-> n, children |-> idx]

ErrStructureMismatch(path, depth, idx, n) ==
  [mismatch |-> TRUE, path |-> path, depth |-> depth, idx |-> idx, children |-> n]

RECURSIVE ValidatePath_Shallow(_, _, _)
\* Faulty variant: the inner loop returns after its first iteration.
ValidatePath_Shallow(n, path, depth) ==
  IF depth >= Len(path) \/ depth >= 1 THEN NoError
  ELSE LET children == Nodes(n)
           idx == path[depth + 1]
       IN  IF idx >= Len(children)
             THEN [mismatch |-> TRUE, path |-> path, depth |-> depth,
                   idx |-> idx, children |-> Len(children)]
             ELSE ValidatePath_Shallow(children[idx + 1], path, depth + 1)

RECURSIVE ValidatePath(_, _, _)
\* The inner loop of Validate over one DynamicPath, from depth d (0-based):
\* NoError, or the mismatch (path, depth, expected index, available children).
ValidatePath(n, path, depth) ==
  IF depth >= Len(path) THEN NoError
  ELSE LET children == Nodes(n)
           idx == path[depth + 1]
       IN  IF idx >= Len(children)
             THEN ErrStructureMismatch(path, depth, idx, Len(children))
             ELSE ValidatePath(children[idx + 1], path, depth + 1)

RECURSIVE ValidateFrom_StopAtStatic(_, _, _)
\* Faulty variant: the outer loop breaks, rather than continues, at an element
\* that is not a DynamicPath.
ValidateFrom_StopAtStatic(plan, root, i) ==
  IF i > Len(plan.Elements) THEN NoError
  ELSE IF plan.Elements[i].type # "DynamicPath" THEN NoError
  ELSE LET e == ValidatePath(root, plan.Elements[i].Path, 0)
       IN  IF e.mismatch THEN e ELSE ValidateFrom_StopAtStatic(plan, root, i + 1)

RECURSIVE ValidateFrom(_, _, _)
\* The outer loop of Validate from element i: the first mismatch, or NoError.
ValidateFrom(plan, root, i) ==
  IF i > Len(plan.Elements) THEN NoError
  ELSE IF plan.Elements[i].type # "DynamicPath" THEN ValidateFrom(plan, root, i + 1)
  ELSE LET e == ValidatePath(root, plan.Elements[i].Path, 0)
       IN  IF e.mismatch THEN e ELSE ValidateFrom(plan, root, i + 1)

\* (jc *Compiler) Validate on the plan pointer it loaded.
Validate(plan, root) == IF plan.nil THEN NoError ELSE ValidateFrom(plan, root, 1)

abs(x) == IF x < 0 THEN -x ELSE x

\* Faulty variant: a deviation equal to the threshold already updates.
shouldUpdateStats_NonStrict(thr, predicted, actual) ==
  IF predicted = 0 THEN TRUE
  ELSE abs(actual - predicted) * 100 >= predicted * thr

\* (jc *Compiler) shouldUpdateStats with the threshold it reads.
shouldUpdateStats(thr, predicted, actual) ==
  IF predicted = 0 THEN TRUE
  ELSE abs(actual - predicted) * 100 > predicted * thr


\* ------------------------------------------------------------- adaptive.go

\* The constants of NewAdaptiveSizer and NewCompiler.
DefaultMax == 5
DefaultVariance == 20
DefaultGrowthFactor == 115
DefaultThreshold == 15

\* average := as.sum / as.count; newBaseline := (average * as.growthFactor) / 100
NewBaseline(s, c, growth) == ((s \div c) * growth) \div 100

\* Faulty variant: the comparison is not strict.
Deviates_NonStrict(size, b, var) == abs(size - b) * 100 >= b * var

\* check's deviation test against the baseline it read.
Deviates(size, b, var) == abs(size - b) * 100 > b * var

\* ------------------------------------------------------------------ inputs

Thr == 1..NThreads

Defaults ==
  [Threshold |-> DefaultThreshold, Max |-> DefaultMax,
   Variance |-> DefaultVariance, GrowthFactor |-> DefaultGrowthFactor]

\* The CompilerCfg values callers pass to NewCompiler and Configure.
Cfgs ==
  { [Threshold |-> 15, Max |-> 2, Variance |-> 20, GrowthFactor |-> 115],
    [Threshold |-> 50, Max |-> 1, Variance |-> 10, GrowthFactor |-> 200] }

\* The trees callers pass in the concurrent specification: two of one shape
\* that differ in dynamic content, one with a larger dynamic part, and a
\* fully static one with fewer children.
Trees ==
  { Elem("div", <<Static("a"), Text("x")>>),
    Elem("div", <<Static("a"), Text("y")>>),
    Elem("div", <<Static("a"), Func(<<Static("x"), Static("y")>>)>>),
    Elem("div", <<Static("a")>>) }

\* The trees rendered with and without a destination: static and dynamic
\* content, static content only, and a tree that renders to no bytes.
WriterTrees ==
  { Elem("div", <<Static("a"), Text("x")>>),
    Elem("div", <<Static("a")>>),
    Fragment(<<>>) }

\* The leaves of the generated trees: static and dynamic text.
Leaf == {Static("a"), Text("x"), Text("y")}

\* The sequences of at most n leaves.
RECURSIVE KidSeqs(_)
KidSeqs(n) ==
  IF n = 0 THEN {<<>>}
  ELSE KidSeqs(n - 1) \cup
       {Append(ks, k) : ks \in {q \in KidSeqs(n - 1) : Len(q) = n - 1}, k \in Leaf}

\* Nested trees: two dynamic nodes at different depths, the same shape with
\* other dynamic and with other static content, candidates with fewer
\* and with more children, a fragment below an element, function components,
\* conditionals, a dynamic element with a dynamic child, a static subtree
\* beside a dynamic node, and paths of length three.
Nested ==
  { Elem("div", <<Text("x"), Elem("p", <<Static("a"), Text("y")>>)>>),
    Elem("div", <<Text("y"), Elem("p", <<Static("a"), Text("x")>>)>>),
    Elem("div", <<Text("x"), Elem("p", <<Static("b"), Text("y")>>)>>),
    Elem("div", <<Text("x"), Elem("p", <<Static("a")>>)>>),
    Elem("div", <<Text("x"), Elem("p", <<Static("b"), Text("y"), Static("a")>>)>>),
    Elem("div", <<Static("a"), Fragment(<<Text("x"), Static("b")>>), Static("b")>>),
    Elem("div", <<Static("a"), Func(<<Static("x"), Static("y")>>)>>),
    Elem("div", <<Static("a"), When(FALSE, <<Static("x")>>)>>),
    Elem("div", <<Static("a"), When(TRUE, <<Static("x")>>)>>),
    Elem("div", <<DynElem("p", <<Text("x")>>), Static("a")>>),
    Elem("div", <<Elem("p", <<Static("a"), Static("b")>>), Text("x")>>),
    Elem("div", <<Elem("p", <<Elem("p", <<Text("x"), Text("y")>>)>>)>>) }

\* The trees of the sequential specification: the leaves alone, every element
\* and every fragment over at most MaxKids leaves, and the nested trees.
GenTrees ==
  Leaf \cup {Elem("div", ks) : ks \in KidSeqs(MaxKids)}
       \cup {Fragment(ks) : ks \in KidSeqs(MaxKids)}
       \cup Nested

\* ------------------------------------------------------------------- state

VARIABLES
  executionPlan,   \* jc.executionPlan: NilPlan or the plan built
  onceDone,        \* jc.compileOnce: its done flag
  onceM,           \* jc.compileOnce: the goroutine holding its mutex, or 0
  threshold,       \* jc.threshold
  cfg,             \* jc.cfg: <<>> (nil) or <<the CompilerCfg last applied>>
  baseline,        \* as.baseline (atomic)
  active,          \* as.active (atomic): 1 sampling, 0 baseline
  mu,              \* as.mu: the goroutine holding it, or 0
  sum, count,      \* as.sum, as.count
  max, variance, growthFactor,
  th,              \* each goroutine's call: position and locals
  compiles,        \* history: how many times compile has run
  compiledRoot,    \* history: the root compile was run on, or NoNode
  log,             \* history: the calls made on the sizer itself since the
                   \* last Reset or Configure, each with the state it found;
                   \* or the calls of the package-level functions, each
                   \* with the registry and the instances it found
                   \* (or, with the critical sections followed field by
                   \* field, the sizes counted in since the run started;
                   \* or <<s>> once the sizes observed are the constant s)
  pool,            \* fluent's buffer pool: the buffers lying in it
  mem,             \* the backing array of every buffer the pool has allocated
  io,              \* each goroutine's buffers, destination and return value
  registry,        \* the package-level maps compilers, tuners and flattened
  heap             \* the Compilers and Tuners the registry has created and
                   \* the Flatteners NewFlattener has returned

vars == <<executionPlan, onceDone, onceM, threshold, cfg, baseline, active, mu,
          sum, count, max, variance, growthFactor, th, compiles, compiledRoot,
          log, pool, mem, io, registry, heap>>

poolVars == <<pool, mem, io>>
globalVars == <<registry, heap>>
extVars == <<pool, mem, io, registry, heap>>

sizerVars == <<baseline, active, mu, sum, count, max, variance, growthFactor>>
compilerVars == <<executionPlan, onceDone, onceM, threshold, cfg>>

\* What a lock-free reader holds before it has read anything.
NoSeen == [baseline |-> 0, active |-> 1, storing |-> FALSE, computed |-> 0]

\* What a goroutine holds before its call: the pooled buffers it drew and gave
\* back, the one it holds, the byte sequences it passed to its destination's
\* Write, what the destination took, and what the call returned (a []byte
\* with the buffer backing it, 0 for an array of its own, or nil); for a call
\* of a package-level function the id, the instance it loaded (its position
\* in heap), the node Tuner.Render read, whether the call stored an entry,
\* what flattened.Load gave (<<>> for a miss), and the error returned ("" for
\* nil); for a walk the arrays it allocated for its paths and the plan
\* elements with the slices they hold.
NoIo ==
  [got |-> <<>>, gave |-> <<>>, held |-> 0, writes |-> <<>>, dest |-> <<>>,
   failed |-> FALSE, ret |-> [nil |-> TRUE, bytes |-> <<>>, backing |-> 0],
   id |-> "", inst |-> 0, node |-> NoNode, stored |-> FALSE,
   val |-> <<>>, err |-> "", arrays |-> <<>>, paths |-> <<>>]

\* The ids callers pass to the package-level functions.
Ids == {"a", "b"}

\* var ( compilers, tuners, flattened sync.Map ): empty maps. An entry of
\* compilers or tuners is the position of the instance in heap, 0 for none;
\* an entry of flattened is <<>> for none or <<the stored bytes>>.
NoRegistry ==
  [compilers |-> [id \in Ids |-> 0], tuners |-> [id \in Ids |-> 0],
   flattened |-> [id \in Ids |-> <<>>]]

\* A goroutine between calls, before its first one.
Idle ==
  [pc |-> "idle", op |-> "none", calls |-> 0, root |-> NoNode, w |-> FALSE,
   early |-> FALSE, plan |-> NilPlan, predicted |-> 0, buf |-> <<>>,
   omitted |-> {}, size |-> 0, ctx |-> "none", verr |-> NoError,
   arg |-> Defaults, late |-> FALSE, seen |-> NoSeen]

\* NewCompiler(cfg...): the defaults, or the given configuration applied; c is
\* <<>> or <<the configuration>>.
InitWith(c) ==
  /\ executionPlan = NilPlan
  /\ onceDone = FALSE
  /\ onceM = 0
  /\ cfg = c
  /\ threshold = IF c = <<>> THEN DefaultThreshold ELSE c[1].Threshold
  /\ baseline = 0
  /\ active = 1
  /\ mu = 0
  /\ sum = 0
  /\ count = 0
  /\ max = IF c = <<>> THEN DefaultMax ELSE c[1].Max
  /\ variance = IF c = <<>> THEN DefaultVariance ELSE c[1].Variance
  /\ growthFactor = IF c = <<>> THEN DefaultGrowthFactor ELSE c[1].GrowthFactor
  /\ th = [t \in Thr |-> Idle]
  /\ compiles = 0
  /\ compiledRoot = NoNode
  /\ log = <<>>
  /\ pool = {}
  /\ mem = <<>>
  /\ io = [t \in Thr |-> NoIo]
  /\ registry = NoRegistry
  /\ heap = <<>>

Init == \E c \in {<<>>} \cup {<<x>> : x \in Cfgs} : InitWith(c)

RECURSIVE CallsUpTo(_)
\* The calls goroutines 1..t have made.
CallsUpTo(t) == IF t = 0 THEN 0 ELSE th[t].calls + CallsUpTo(t - 1)

\* Whether the callers have a call left to make, of n in all.
MayCall(n) == CallsUpTo(NThreads) < n

\* A fresh call record of goroutine t.
Call(t, op) == [Idle EXCEPT !.op = op, !.calls = th[t].calls + 1]

\* The goroutine's record when UpdateStats returns to its caller: compile goes
\* on to return the plan, Render returns its bytes to the caller of Render.
Return(r) ==
  IF r.ctx = "compile" THEN [r EXCEPT !.pc = "oncefin"]
  ELSE IF r.op = "Render" /\ r.w THEN [r EXCEPT !.pc = "write"]
  ELSE [r EXCEPT !.pc = "done"]

\* ------------------------------------------------- fluent's buffer pool
\* fluent.NewBuffer and fluent.PutBuffer as compile.go and tune.go use them:
\* a pool of reusable buffers. A buffer handed out is reset to length 0 and
\* keeps its backing array, so what is written to it next lies over the
\* bytes written before.

\* fluent.NewBuffer: the buffers a call may be handed, one lying in the pool
\* or a newly allocated one.
Draws == pool \cup (IF Len(mem) < MaxBufs THEN {Len(mem) + 1} ELSE {})

\* The backing array old after bytes b are written from its start.
Overwrite(old, b) == b \o SubSeq(old, Len(b) + 1, Len(old))

\* mem after bytes are written to buffer b, new or reset.
Written(b, bytes) ==
  IF b > Len(mem) THEN Append(mem, bytes)
  ELSE [mem EXCEPT ![b] = Overwrite(@, bytes)]

\* The bytes a caller reads in the []byte it was returned: its own array, or
\* what the backing array of the pooled buffer holds now.
View(r) ==
  IF r.backing = 0 THEN r.bytes ELSE SubSeq(mem[r.backing], 1, Len(r.bytes))

\* Whether writing bytes to buffer b may move it to a new backing array: the
\* capacity of the old one is not known beyond what was written to it.
MayMove(b, bytes) ==
  IF b <= Len(mem) /\ Len(bytes) > Len(mem[b]) /\
     (\E u \in Thr : io[u].ret.backing = b)
    THEN BOOLEAN ELSE {FALSE}

\* buf := fluent.NewBuffer(...) hands goroutine t the buffer b, and bytes are
\* rendered into it. When the buffer moves to a new array, a []byte returned
\* earlier keeps the old array and what it held.
TakeBuffer(t, b, bytes) ==
  /\ b \in Draws
  /\ pool' = pool \ {b}
  /\ mem' = Written(b, bytes)
  /\ \E moved \in MayMove(b, bytes) :
       io' = [u \in Thr |->
                IF u = t THEN [io[t] EXCEPT !.got = Append(@, b), !.held = b]
                ELSE IF moved /\ io[u].ret.backing = b
                  THEN [io[u] EXCEPT !.ret = [nil |-> FALSE,
                                              bytes |-> View(io[u].ret),
                                              backing |-> 0]]
                  ELSE io[u]]

\* fluent.PutBuffer(buf) by goroutine t.
PutBuffer(t) ==
  /\ pool' = pool \cup {io[t].held}
  /\ io' = [io EXCEPT ![t].gave = Append(@, io[t].held), ![t].held = 0]

\* UpdateStats: the unlocked Active() check routes the call.
Route(r, size, ctx) ==
  [r EXCEPT !.size = size, !.ctx = ctx,
            !.pc = IF active = 1 THEN "sample" ELSE "check"]

\* ------------------------------------------------------- Compiler.Render

\* A goroutine calls Render(root) or Render(root, w).
RenderCall(t, root, w, n) ==
  /\ th[t].pc = "idle"
  /\ MayCall(n)
  /\ th' = [th EXCEPT ![t] = [Call(t, "Render") EXCEPT
               !.pc = "once", !.root = root, !.w = w, !.early = ~onceDone]]
  /\ UNCHANGED <<compilerVars, sizerVars, compiles, compiledRoot>>
  /\ UNCHANGED log
  /\ UNCHANGED extVars

\* Faulty variant: the gate is a bare flag, with no mutex held during the build.
OnceAcquire_NoMutex(t) ==
  /\ th[t].pc = "once"
  /\ ~onceDone
  /\ onceM' = t
  /\ th' = [th EXCEPT ![t].pc = "compile"]
  /\ UNCHANGED <<executionPlan, onceDone, threshold, cfg, sizerVars, compiles,
                 compiledRoot>>
  /\ UNCHANGED log
  /\ UNCHANGED extVars

\* Faulty variant: the gate is a plain mutex, so every call builds again.
OnceAcquire_EveryCall(t) ==
  /\ th[t].pc = "once"
  /\ onceM = 0
  /\ onceM' = t
  /\ th' = [th EXCEPT ![t].pc = "compile"]
  /\ UNCHANGED <<executionPlan, onceDone, threshold, cfg, sizerVars, compiles,
                 compiledRoot>>
  /\ UNCHANGED log
  /\ UNCHANGED extVars

\* compileOnce.Do, not yet done: the first caller takes the gate's mutex; a
\* caller that finds it held waits here.
OnceAcquire(t) ==
  /\ th[t].pc = "once"
  /\ ~onceDone
  /\ onceM = 0
  /\ onceM' = t
  /\ th' = [th EXCEPT ![t].pc = "compile"]
  /\ UNCHANGED <<executionPlan, onceDone, threshold, cfg, sizerVars, compiles,
                 compiledRoot>>
  /\ UNCHANGED log
  /\ UNCHANGED extVars

\* Faulty variant: compile builds the plan and executes it once, but does not
\* hand the size to the sizer.
Compile_NoSeed(t) ==
  /\ th[t].pc = "compile"
  /\ LET plan == BuildPlan(th[t].root)
         r == ExecutePlan(plan, th[t].root)
     IN  /\ th' = [th EXCEPT ![t] =
                  [th[t] EXCEPT !.plan = plan, !.ctx = "compile", !.pc = "oncefin"]]
         /\ \E b \in Draws : TakeBuffer(t, b, r.buf)
  /\ compiles' = compiles + 1
  /\ UNCHANGED <<compilerVars, sizerVars, compiledRoot>>
  /\ UNCHANGED log
  /\ UNCHANGED globalVars

\* compile: the walk, the final flush, one execution of the plan against the
\* original root into a pooled buffer, and the call of UpdateStats with its
\* size.
Compile(t) ==
  /\ th[t].pc = "compile"
  /\ LET plan == BuildPlan(th[t].root)
         r == ExecutePlan(plan, th[t].root)
     IN  /\ th' = [th EXCEPT ![t] =
                  Route([th[t] EXCEPT !.plan = plan], Len(r.buf), "compile")]
         /\ \E b \in Draws : TakeBuffer(t, b, r.buf)
  /\ compiles' = compiles + 1
  /\ UNCHANGED <<compilerVars, sizerVars, compiledRoot>>
  /\ UNCHANGED log
  /\ UNCHANGED globalVars

\* compile returns: its deferred PutBuffer runs, jc.executionPlan is
\* assigned, the gate is marked done and its mutex released.
OnceFinish(t) ==
  /\ th[t].pc = "oncefin"
  /\ executionPlan' = th[t].plan
  /\ onceDone' = TRUE
  /\ onceM' = 0
  /\ compiledRoot' = th[t].root
  /\ th' = [th EXCEPT ![t].pc = "exec"]
  /\ PutBuffer(t)
  /\ UNCHANGED <<threshold, cfg, sizerVars, compiles>>
  /\ UNCHANGED log
  /\ UNCHANGED <<mem, globalVars>>

\* Faulty variant: a caller that finds a build in progress does not wait.
RenderExec_NoWait(t) ==
  /\ th[t].pc \in {"once", "exec"}
  /\ IF executionPlan.nil
       THEN /\ th' = [th EXCEPT ![t].pc = "done", ![t].plan = NilPlan]
            /\ UNCHANGED poolVars
       ELSE LET r == ExecutePlan(executionPlan, th[t].root)
            IN  /\ th' = [th EXCEPT ![t] = [th[t] EXCEPT
                      !.plan = executionPlan, !.predicted = baseline,
                      !.buf = r.buf, !.omitted = r.omitted, !.size = Len(r.buf),
                      !.pc = IF r.panic THEN "panic" ELSE "stats"]]
                /\ IF th[t].w
                     THEN \E b \in Draws : TakeBuffer(t, b, r.buf)
                     ELSE /\ io' = [io EXCEPT ![t].ret =
                                     [nil |-> FALSE, bytes |-> r.buf, backing |-> 0]]
                          /\ UNCHANGED <<pool, mem>>
  /\ UNCHANGED <<compilerVars, sizerVars, compiles, compiledRoot>>
  /\ UNCHANGED log
  /\ UNCHANGED globalVars

\* compileOnce.Do returns, at once when the gate is already done (a flag that
\* never goes back) or after this call's own build; then
\* plan := jc.executionPlan; predictedSize := GetBaseline(); and the plan's
\* elements are rendered against this call's root, into a pooled buffer when
\* there is a destination and into a buffer of the call's own otherwise.
RenderExec(t) ==
  /\ \/ th[t].pc = "once" /\ onceDone
     \/ th[t].pc = "exec"
  /\ IF executionPlan.nil
       THEN /\ th' = [th EXCEPT ![t].pc = "done", ![t].plan = NilPlan]
            /\ UNCHANGED poolVars
       ELSE LET r == ExecutePlan(executionPlan, th[t].root)
            IN  /\ th' = [th EXCEPT ![t] = [th[t] EXCEPT
                      !.plan = executionPlan, !.predicted = baseline,
                      !.buf = r.buf, !.omitted = r.omitted, !.size = Len(r.buf),
                      !.pc = IF r.panic THEN "panic" ELSE "stats"]]
                /\ IF th[t].w
                     THEN \E b \in Draws : TakeBuffer(t, b, r.buf)
                     ELSE /\ io' = [io EXCEPT ![t].ret =
                                     [nil |-> FALSE, bytes |-> r.buf, backing |-> 0]]
                          /\ UNCHANGED <<pool, mem>>
  /\ UNCHANGED <<compilerVars, sizerVars, compiles, compiledRoot>>
  /\ UNCHANGED log
  /\ UNCHANGED globalVars

\* shouldUpdateStats, then UpdateStats, or at once the write to the
\* destination or the return of the bytes.
RenderStats(t) ==
  /\ th[t].pc = "stats"
  /\ th' = [th EXCEPT ![t] =
       IF shouldUpdateStats(threshold, th[t].predicted, th[t].size)
         THEN Route(th[t], th[t].size, "render")
         ELSE [th[t] EXCEPT !.pc = IF th[t].w THEN "write" ELSE "done"]]
  /\ UNCHANGED <<compilerVars, sizerVars, compiles, compiledRoot>>
  /\ UNCHANGED log
  /\ UNCHANGED extVars

\* Faulty variant: with a destination, the bytes are returned as well.
RenderWrite_ReturnsBytes(t, ok) ==
  /\ th[t].pc = "write"
  /\ LET b == th[t].buf
     IN  io' = [io EXCEPT ![t] = [@ EXCEPT
           !.writes = IF Len(b) > 0 THEN Append(@, b) ELSE @,
           !.dest = IF ok THEN b ELSE SubSeq(b, 1, Len(b) \div 2),
           !.failed = ~ok /\ Len(b) > 0,
           !.gave = Append(@, io[t].held),
           !.held = 0,
           !.ret = [nil |-> FALSE, bytes |-> b, backing |-> io[t].held]]]
  /\ pool' = pool \cup {io[t].held}
  /\ th' = [th EXCEPT ![t].pc = "done"]
  /\ UNCHANGED <<compilerVars, sizerVars, compiles, compiledRoot, log, mem,
                 globalVars>>

\* Faulty variant: a failed write returns without giving the buffer back.
RenderWrite_LeakOnError(t, ok) ==
  /\ th[t].pc = "write"
  /\ LET b == th[t].buf
         put == ok \/ Len(b) = 0
     IN  /\ io' = [io EXCEPT ![t] = [@ EXCEPT
               !.writes = IF Len(b) > 0 THEN Append(@, b) ELSE @,
               !.dest = IF ok THEN b ELSE SubSeq(b, 1, Len(b) \div 2),
               !.failed = ~ok /\ Len(b) > 0,
               !.gave = IF put THEN Append(@, io[t].held) ELSE @,
               !.held = IF put THEN 0 ELSE @,
               !.ret = [nil |-> TRUE, bytes |-> <<>>, backing |-> 0]]]
         /\ pool' = IF put THEN pool \cup {io[t].held} ELSE pool
  /\ th' = [th EXCEPT ![t].pc = "done"]
  /\ UNCHANGED <<compilerVars, sizerVars, compiles, compiledRoot, log, mem,
                 globalVars>>

\* With a destination: buf.WriteTo(w[0]) passes the whole content to one
\* Write (none when the buffer is empty), whose error is dropped; a Write that
\* fails (ok false) takes a prefix only. Then fluent.PutBuffer(buf) and
\* return nil.
RenderWrite(t, ok) ==
  /\ th[t].pc = "write"
  /\ LET b == th[t].buf
     IN  io' = [io EXCEPT ![t] = [@ EXCEPT
           !.writes = IF Len(b) > 0 THEN Append(@, b) ELSE @,
           !.dest = IF ok THEN b ELSE SubSeq(b, 1, Len(b) \div 2),
           !.failed = ~ok /\ Len(b) > 0,
           !.gave = Append(@, io[t].held),
           !.held = 0,
           !.ret = [nil |-> TRUE, bytes |-> <<>>, backing |-> 0]]]
  /\ pool' = pool \cup {io[t].held}
  /\ th' = [th EXCEPT ![t].pc = "done"]
  /\ UNCHANGED <<compilerVars, sizerVars, compiles, compiledRoot, log, mem,
                 globalVars>>

\* ------------------------------------------------- AdaptiveSizer.UpdateStats

\* Faulty variant: the phase is not checked again under the lock.
SampleLock_NoRecheck(t) ==
  /\ th[t].pc = "sample"
  /\ mu = 0
  /\ sum' = sum + th[t].size
  /\ count' = count + 1
  /\ IF count + 1 >= max
       THEN /\ baseline' = NewBaseline(sum + th[t].size, count + 1, growthFactor)
            /\ mu' = t
            /\ th' = [th EXCEPT ![t].pc = "publish"]
       ELSE /\ th' = [th EXCEPT ![t] = Return(th[t])]
            /\ UNCHANGED <<baseline, mu>>
  /\ UNCHANGED <<active, max, variance, growthFactor>>
  /\ UNCHANGED <<compilerVars, compiles, compiledRoot, log>>
  /\ UNCHANGED extVars

\* Faulty variant: the re-check under the lock is inverted, and a sample taken
\* while the sizer is sampling is dropped.
SampleLock_Inverted(t) ==
  /\ th[t].pc = "sample"
  /\ mu = 0
  /\ IF active = 1
       THEN /\ th' = [th EXCEPT ![t] = Return([th[t] EXCEPT !.late = TRUE])]
            /\ UNCHANGED sizerVars
       ELSE /\ sum' = sum + th[t].size
            /\ count' = count + 1
            /\ IF count + 1 >= max
                 THEN /\ baseline' = NewBaseline(sum + th[t].size, count + 1,
                                                 growthFactor)
                      /\ mu' = t
                      /\ th' = [th EXCEPT ![t].pc = "publish"]
                 ELSE /\ th' = [th EXCEPT ![t] = Return(th[t])]
                      /\ UNCHANGED <<baseline, mu>>
            /\ UNCHANGED <<active, max, variance, growthFactor>>
  /\ UNCHANGED <<compilerVars, compiles, compiledRoot>>
  /\ UNCHANGED log
  /\ UNCHANGED extVars

\* Faulty variant: the baseline is established one sample late (count > max).
SampleLock_OneMore(t) ==
  /\ th[t].pc = "sample"
  /\ mu = 0
  /\ IF active = 0
       THEN /\ th' = [th EXCEPT ![t] = Return([th[t] EXCEPT !.late = TRUE])]
            /\ UNCHANGED sizerVars
       ELSE /\ sum' = sum + th[t].size
            /\ count' = count + 1
            /\ IF count + 1 > max
                 THEN /\ baseline' = NewBaseline(sum + th[t].size, count + 1,
                                                 growthFactor)
                      /\ mu' = t
                      /\ th' = [th EXCEPT ![t].pc = "publish"]
                 ELSE /\ th' = [th EXCEPT ![t] = Return(th[t])]
                      /\ UNCHANGED <<baseline, mu>>
            /\ UNCHANGED <<active, max, variance, growthFactor>>
  /\ UNCHANGED <<compilerVars, compiles, compiledRoot, log>>
  /\ UNCHANGED extVars

\* sample under as.mu: the re-check of active (late records that it found the
\* phase already switched and returned), the accumulation and, with enough
\* samples, the store of the new baseline.
SampleLock(t) ==
  /\ th[t].pc = "sample"
  /\ mu = 0
  /\ IF active = 0
       THEN /\ th' = [th EXCEPT ![t] = Return([th[t] EXCEPT !.late = TRUE])]
            /\ UNCHANGED sizerVars
       ELSE /\ sum' = sum + th[t].size
            /\ count' = count + 1
            /\ IF count + 1 >= max
                 THEN /\ baseline' = NewBaseline(sum + th[t].size, count + 1,
                                                 growthFactor)
                      /\ mu' = t
                      /\ th' = [th EXCEPT ![t].pc = "publish"]
                 ELSE /\ th' = [th EXCEPT ![t] = Return(th[t])]
                      /\ UNCHANGED <<baseline, mu>>
            /\ UNCHANGED <<active, max, variance, growthFactor>>
  /\ UNCHANGED <<compilerVars, compiles, compiledRoot>>
  /\ UNCHANGED log
  /\ UNCHANGED extVars

\* sample: the store of active = 0 after the baseline, and the unlock.
SamplePublish(t) ==
  /\ th[t].pc = "publish"
  /\ active' = 0
  /\ mu' = 0
  /\ th' = [th EXCEPT ![t] = Return(th[t])]
  /\ UNCHANGED <<baseline, sum, count, max, variance, growthFactor,
                 compilerVars, compiles, compiledRoot>>
  /\ UNCHANGED log
  /\ UNCHANGED extVars

\* check before the lock: the baseline read and the deviation test.
CheckRead(t) ==
  /\ th[t].pc = "check"
  /\ th' = [th EXCEPT ![t] =
       IF baseline # 0 /\ Deviates(th[t].size, baseline, variance)
         THEN [th[t] EXCEPT !.pc = "revert"]
         ELSE Return(th[t])]
  /\ UNCHANGED <<compilerVars, sizerVars, compiles, compiledRoot>>
  /\ UNCHANGED log
  /\ UNCHANGED extVars

\* Faulty variant: the size that triggered the revert is discarded.
CheckRevert_Discard(t) ==
  /\ th[t].pc = "revert"
  /\ mu = 0
  /\ sum' = 0
  /\ count' = 0
  /\ active' = 1
  /\ th' = [th EXCEPT ![t] = Return(th[t])]
  /\ UNCHANGED <<baseline, mu, max, variance, growthFactor, compilerVars,
                 compiles, compiledRoot, log>>
  /\ UNCHANGED extVars

\* check under as.mu: the new run is seeded and sampling switched back on.
CheckRevert(t) ==
  /\ th[t].pc = "revert"
  /\ mu = 0
  /\ sum' = th[t].size
  /\ count' = 1
  /\ active' = 1
  /\ th' = [th EXCEPT ![t] = Return(th[t])]
  /\ UNCHANGED <<baseline, mu, max, variance, growthFactor, compilerVars,
                 compiles, compiledRoot>>
  /\ UNCHANGED log
  /\ UNCHANGED extVars

\* ---------------------------------------------------- Compiler.Configure

\* Configure: jc.cfg and jc.threshold are assigned, then the sizer is called.
ConfigureCall(t, c, n) ==
  /\ th[t].pc = "idle"
  /\ MayCall(n)
  /\ cfg' = <<c>>
  /\ threshold' = c.Threshold
  /\ th' = [th EXCEPT ![t] = [Call(t, "Configure") EXCEPT !.pc = "cfg", !.arg = c]]
  /\ UNCHANGED <<executionPlan, onceDone, onceM, sizerVars, compiles, compiledRoot>>
  /\ UNCHANGED log
  /\ UNCHANGED extVars

\* Faulty variant: Configure keeps the statistics gathered so far.
ConfigureSizer_KeepStats(t) ==
  /\ th[t].pc = "cfg"
  /\ mu = 0
  /\ mu' = t
  /\ max' = th[t].arg.Max
  /\ variance' = th[t].arg.Variance
  /\ growthFactor' = th[t].arg.GrowthFactor
  /\ baseline' = 0
  /\ th' = [th EXCEPT ![t].pc = "cfgpub"]
  /\ UNCHANGED <<sum, count, active, compilerVars, compiles, compiledRoot, log>>
  /\ UNCHANGED extVars

\* AdaptiveSizer.Configure under as.mu: the parameters, the statistics and the
\* store of baseline = 0.
ConfigureSizer(t) ==
  /\ th[t].pc = "cfg"
  /\ mu = 0
  /\ mu' = t
  /\ max' = th[t].arg.Max
  /\ variance' = th[t].arg.Variance
  /\ growthFactor' = th[t].arg.GrowthFactor
  /\ sum' = 0
  /\ count' = 0
  /\ baseline' = 0
  /\ th' = [th EXCEPT ![t].pc = "cfgpub"]
  /\ UNCHANGED <<active, compilerVars, compiles, compiledRoot>>
  /\ UNCHANGED log
  /\ UNCHANGED extVars

\* AdaptiveSizer.Configure: the store of active = 1 and the unlock.
ConfigurePublish(t) ==
  /\ th[t].pc = "cfgpub"
  /\ active' = 1
  /\ mu' = 0
  /\ th' = [th EXCEPT ![t] = [Idle EXCEPT !.calls = th[t].calls]]
  /\ UNCHANGED <<baseline, sum, count, max, variance, growthFactor,
                 compilerVars, compiles, compiledRoot>>
  /\ UNCHANGED log
  /\ UNCHANGED extVars

\* ----------------------------------------------------- Compiler.Validate

\* Validate(root): the plan pointer is loaded and every DynamicPath resolved.
ValidateCall(t, root, n) ==
  /\ th[t].pc = "idle"
  /\ MayCall(n)
  /\ th' = [th EXCEPT ![t] = [Call(t, "Validate") EXCEPT
               !.pc = "done", !.root = root, !.plan = executionPlan,
               !.verr = Validate(executionPlan, root)]]
  /\ UNCHANGED <<compilerVars, sizerVars, compiles, compiledRoot>>
  /\ UNCHANGED log
  /\ UNCHANGED extVars

\* The caller has the result of its Render or Validate call (pc "done") and
\* goes on; its locals are gone.
Leave(t) ==
  /\ th[t].pc = "done"
  /\ th' = [th EXCEPT ![t] = [Idle EXCEPT !.calls = th[t].calls]]
  /\ io' = [io EXCEPT ![t] = NoIo]
  /\ UNCHANGED <<compilerVars, sizerVars, compiles, compiledRoot>>
  /\ UNCHANGED log
  /\ UNCHANGED <<pool, mem, globalVars>>

\* ------------------------------------------ AdaptiveSizer called directly

\* The sizes passed to UpdateStats.
Sizes == {0, 100, 130, 138, 200}

\* The sizer's fields as a call finds them.
SizerState ==
  [baseline |-> baseline, active |-> active, sum |-> sum, count |-> count,
   max |-> max, variance |-> variance, growthFactor |-> growthFactor]

\* One entry of the history of calls.
Event(op, size, c) == [op |-> op, size |-> size, arg |-> c, pre |-> SizerState]

\* as.UpdateStats(size): the unlocked Active() check routes the call.
UpdateStatsCall(t, size, n, logged) ==
  /\ th[t].pc = "idle"
  /\ MayCall(n)
  /\ th' = [th EXCEPT ![t] = Route(Call(t, "UpdateStats"), size, "sizer")]
  /\ log' = IF logged THEN Append(log, Event("UpdateStats", size, Defaults))
                      ELSE log
  /\ UNCHANGED <<compilerVars, sizerVars, compiles, compiledRoot>>
  /\ UNCHANGED extVars

\* as.Reset() is called.
ResetCall(t, n, logged) ==
  /\ th[t].pc = "idle"
  /\ MayCall(n)
  /\ th' = [th EXCEPT ![t] = [Call(t, "Reset") EXCEPT !.pc = "reset"]]
  /\ log' = IF logged THEN <<Event("Reset", 0, Defaults)>> ELSE log
  /\ UNCHANGED <<compilerVars, sizerVars, compiles, compiledRoot>>
  /\ UNCHANGED extVars

\* Faulty variant: Reset leaves the published baseline in place.
ResetLock_KeepBaseline(t) ==
  /\ th[t].pc = "reset"
  /\ mu = 0
  /\ mu' = t
  /\ sum' = 0
  /\ count' = 0
  /\ th' = [th EXCEPT ![t].pc = "resetpub"]
  /\ UNCHANGED <<baseline, active, max, variance, growthFactor, compilerVars,
                 compiles, compiledRoot, log>>
  /\ UNCHANGED extVars

\* Reset under as.mu: the statistics and the store of baseline = 0.
ResetLock(t) ==
  /\ th[t].pc = "reset"
  /\ mu = 0
  /\ mu' = t
  /\ sum' = 0
  /\ count' = 0
  /\ baseline' = 0
  /\ th' = [th EXCEPT ![t].pc = "resetpub"]
  /\ UNCHANGED <<active, max, variance, growthFactor, compilerVars, compiles,
                 compiledRoot, log>>
  /\ UNCHANGED extVars

\* Reset: the store of active = 1 and the unlock.
ResetPublish(t) ==
  /\ th[t].pc = "resetpub"
  /\ active' = 1
  /\ mu' = 0
  /\ th' = [th EXCEPT ![t].pc = "done"]
  /\ UNCHANGED <<baseline, sum, count, max, variance, growthFactor,
                 compilerVars, compiles, compiledRoot, log>>
  /\ UNCHANGED extVars

\* as.Configure(max, variance, growthFactor) is called on the sizer itself.
SizerConfigureCall(t, c, n, logged) ==
  /\ th[t].pc = "idle"
  /\ MayCall(n)
  /\ th' = [th EXCEPT ![t] =
       [Call(t, "SizerConfigure") EXCEPT !.pc = "cfg", !.arg = c]]
  /\ log' = IF logged THEN <<Event("Configure", 0, c)>> ELSE log
  /\ UNCHANGED <<compilerVars, sizerVars, compiles, compiledRoot>>
  /\ UNCHANGED extVars

\* A lock-free reader: GetBaseline() and Active() with no step of another
\* goroutine between the two loads. For the history: storing records whether,
\* at that instant, a goroutine in sample had stored the baseline it computed
\* and not yet the phase, and computed the baseline of the statistics as then
\* accumulated.
Observe(t, n) ==
  /\ th[t].pc = "idle"
  /\ MayCall(n)
  /\ th' = [th EXCEPT ![t] = [Call(t, "Observe") EXCEPT
       !.pc = "done",
       !.seen = [baseline |-> baseline, active |-> active,
                 storing |-> \E u \in Thr : th[u].pc = "publish",
                 computed |-> IF count > 0
                                THEN NewBaseline(sum, count, growthFactor)
                                ELSE 0]]]
  /\ UNCHANGED <<compilerVars, sizerVars, compiles, compiledRoot, log>>
  /\ UNCHANGED extVars

\* --------------------------------------------- instances of the registry

\* NewAdaptiveSizer(), and Configure(max, variance, growthFactor) applied when
\* c is <<the configuration>> rather than <<>>.
NewSizer(c) ==
  [baseline |-> 0, active |-> 1, sum |-> 0, count |-> 0,
   max |-> IF c = <<>> THEN DefaultMax ELSE c[1].Max,
   variance |-> IF c = <<>> THEN DefaultVariance ELSE c[1].Variance,
   growthFactor |-> IF c = <<>> THEN DefaultGrowthFactor ELSE c[1].GrowthFactor]

\* as.UpdateStats(size) on the sizer s of an instance, from call to return
\* with no other call on that sizer in between: sample while sampling, check
\* otherwise.
SizerUpdate(s, size) ==
  IF s.active = 1
    THEN IF s.count + 1 >= s.max
           THEN [s EXCEPT !.sum = s.sum + size, !.count = s.count + 1,
                          !.baseline = NewBaseline(s.sum + size, s.count + 1,
                                                   s.growthFactor),
                          !.active = 0]
           ELSE [s EXCEPT !.sum = s.sum + size, !.count = s.count + 1]
    ELSE IF s.baseline # 0 /\ Deviates(size, s.baseline, s.variance)
           THEN [s EXCEPT !.sum = size, !.count = 1, !.active = 1]
           ELSE s

\* NewTuner(cfg...): a Tuner with no template yet. For the history: id is the
\* key an instance was stored under, compiles and compiledRoot the builds of
\* a Compiler's plan and the root of the last one.
NewTuner(c) ==
  [kind |-> "Tuner", id |-> "", rootNode |-> NoNode, cfg |-> c, threshold |-> 0,
   sizer |-> NewSizer(c), plan |-> NilPlan, compiles |-> 0,
   compiledRoot |-> NoNode, bytes |-> <<>>]

\* NewCompiler(cfg...): no plan yet, the default threshold or the configured
\* one, and the sizer.
NewCompiler(c) ==
  [kind |-> "Compiler", id |-> "", rootNode |-> NoNode, cfg |-> c,
   threshold |-> IF c = <<>> THEN DefaultThreshold ELSE c[1].Threshold,
   sizer |-> NewSizer(c), plan |-> NilPlan, compiles |-> 0,
   compiledRoot |-> NoNode, bytes |-> <<>>]

\* The trees passed to the package-level Compile.
CompileTrees ==
  { Elem("div", <<Static("a"), Text("x")>>),
    Elem("div", <<Static("b"), Text("y")>>) }

\* The configurations passed to TuneConfig.
TunerCfgs ==
  { [Max |-> 3, Variance |-> 10, GrowthFactor |-> 150] }

\* The templates passed to Tune: of different sizes.
TuneTrees ==
  { Elem("div", <<Text("x")>>),
    Elem("div", <<Text("y"), Static("a")>>) }

\* ----------------------------------------------------- jit.Tune, Tuner

\* One entry of the history of calls of the package-level functions: the
\* call, and the registry and the instances as it found them.
GlobalEvent(op, ids, c) ==
  [op |-> op, ids |-> ids, arg |-> c, registry |-> registry, heap |-> heap]

\* Tune(id, n, w...): val, loaded := tuners.Load(id); early records a miss.
TuneCall(t, id, n, w, calls, logged) ==
  /\ th[t].pc = "idle"
  /\ MayCall(calls)
  /\ th' = [th EXCEPT ![t] = [Call(t, "Tune") EXCEPT
       !.root = n, !.w = w, !.early = (registry.tuners[id] = 0),
       !.pc = IF registry.tuners[id] = 0 THEN "tstore" ELSE "tune"]]
  /\ io' = [io EXCEPT ![t] = [NoIo EXCEPT !.id = id, !.inst = registry.tuners[id]]]
  /\ log' = IF logged THEN Append(log, GlobalEvent("Tune", {id}, <<>>)) ELSE log
  /\ UNCHANGED <<compilerVars, sizerVars, compiles, compiledRoot, pool, mem,
                 globalVars>>

\* val, _ = tuners.LoadOrStore(id, NewTuner()): the entry another goroutine
\* stored meanwhile, or a new Tuner stored now.
TuneLoadOrStore(t) ==
  /\ th[t].pc = "tstore"
  /\ IF registry.tuners[io[t].id] = 0
       THEN /\ heap' = Append(heap, [NewTuner(<<>>) EXCEPT !.id = io[t].id])
            /\ registry' = [registry EXCEPT !.tuners[io[t].id] = Len(heap) + 1]
            /\ io' = [io EXCEPT ![t].inst = Len(heap) + 1, ![t].stored = TRUE]
       ELSE /\ io' = [io EXCEPT ![t].inst = registry.tuners[io[t].id]]
            /\ UNCHANGED <<registry, heap>>
  /\ th' = [th EXCEPT ![t].pc = "tune"]
  /\ UNCHANGED <<compilerVars, sizerVars, compiles, compiledRoot, log, pool,
                 mem>>

\* tuner.Tune(n): jt.rootNode = root under jt.mu.
TunerTune(t) ==
  /\ th[t].pc = "tune"
  /\ heap' = [heap EXCEPT ![io[t].inst].rootNode = th[t].root]
  /\ th' = [th EXCEPT ![t].pc = "tread"]
  /\ UNCHANGED <<compilerVars, sizerVars, compiles, compiledRoot, log,
                 poolVars, registry>>

\* Tuner.Render: rootNode := jt.rootNode under the read lock.
TunerRead(t) ==
  /\ th[t].pc = "tread"
  /\ io' = [io EXCEPT ![t].node = heap[io[t].inst].rootNode]
  /\ th' = [th EXCEPT ![t].pc = "texec"]
  /\ UNCHANGED <<compilerVars, sizerVars, compiles, compiledRoot, log, pool,
                 mem, globalVars>>

\* tune: a pooled buffer sized by GetBaseline(), the node rendered into it,
\* and UpdateStats with the size.
TunerExec(t) ==
  /\ th[t].pc = "texec"
  /\ LET bytes == RenderBuilder(io[t].node)
         s == heap[io[t].inst].sizer
     IN  /\ \E b \in Draws : TakeBuffer(t, b, bytes)
         /\ heap' = [heap EXCEPT ![io[t].inst].sizer = SizerUpdate(s, Len(bytes))]
         /\ th' = [th EXCEPT ![t] = [th[t] EXCEPT
                !.pc = "tret", !.predicted = s.baseline, !.buf = bytes,
                !.size = Len(bytes)]]
  /\ UNCHANGED <<compilerVars, sizerVars, compiles, compiledRoot, log,
                 registry>>

\* tune returns: with a destination buf.WriteTo(w) and nil, otherwise
\* buf.Bytes(), the bytes in the buffer's own array; then the deferred
\* fluent.PutBuffer(buf) runs.
TunerReturn(t, ok) ==
  /\ th[t].pc = "tret"
  /\ LET b == th[t].buf
     IN  io' = [io EXCEPT ![t] = [@ EXCEPT
           !.writes = IF th[t].w /\ Len(b) > 0 THEN Append(@, b) ELSE @,
           !.dest = IF ~th[t].w THEN <<>>
                    ELSE IF ok THEN b ELSE SubSeq(b, 1, Len(b) \div 2),
           !.failed = th[t].w /\ ~ok /\ Len(b) > 0,
           !.gave = Append(@, io[t].held),
           !.held = 0,
           !.ret = IF th[t].w THEN [nil |-> TRUE, bytes |-> <<>>, backing |-> 0]
                   ELSE [nil |-> FALSE, bytes |-> b, backing |-> io[t].held]]]
  /\ pool' = pool \cup {io[t].held}
  /\ th' = [th EXCEPT ![t].pc = "done"]
  /\ UNCHANGED <<compilerVars, sizerVars, compiles, compiledRoot, log, mem,
                 globalVars>>

\* ------------------------------------------------------------ jit.Compile

\* Compile(id, n, w...): val, loaded := compilers.Load(id); early records a
\* miss.
CompileCall(t, id, n, w, calls, logged) ==
  /\ th[t].pc = "idle"
  /\ MayCall(calls)
  /\ th' = [th EXCEPT ![t] = [Call(t, "Compile") EXCEPT
       !.root = n, !.w = w, !.early = (registry.compilers[id] = 0),
       !.pc = IF registry.compilers[id] = 0 THEN "cstore" ELSE "conce"]]
  /\ io' = [io EXCEPT ![t] =
       [NoIo EXCEPT !.id = id, !.inst = registry.compilers[id]]]
  /\ log' = IF logged THEN Append(log, GlobalEvent("Compile", {id}, <<>>))
                      ELSE log
  /\ UNCHANGED <<compilerVars, sizerVars, compiles, compiledRoot, pool, mem,
                 globalVars>>

\* Faulty variant: the new Compiler is stored whatever the map holds.
CompileLoadOrStore_Store(t) ==
  /\ th[t].pc = "cstore"
  /\ heap' = Append(heap, [NewCompiler(<<>>) EXCEPT !.id = io[t].id])
  /\ registry' = [registry EXCEPT !.compilers[io[t].id] = Len(heap) + 1]
  /\ io' = [io EXCEPT ![t].inst = Len(heap) + 1, ![t].stored = TRUE]
  /\ th' = [th EXCEPT ![t].pc = "conce"]
  /\ UNCHANGED <<compilerVars, sizerVars, compiles, compiledRoot, log, pool,
                 mem>>

\* val, _ = compilers.LoadOrStore(id, NewCompiler()): the entry another
\* goroutine stored meanwhile, or a new Compiler stored now.
CompileLoadOrStore(t) ==
  /\ th[t].pc = "cstore"
  /\ IF registry.compilers[io[t].id] = 0
       THEN /\ heap' = Append(heap, [NewCompiler(<<>>) EXCEPT !.id = io[t].id])
            /\ registry' = [registry EXCEPT
                              !.compilers[io[t].id] = Len(heap) + 1]
            /\ io' = [io EXCEPT ![t].inst = Len(heap) + 1, ![t].stored = TRUE]
       ELSE /\ io' = [io EXCEPT ![t].inst = registry.compilers[io[t].id]]
            /\ UNCHANGED <<registry, heap>>
  /\ th' = [th EXCEPT ![t].pc = "conce"]
  /\ UNCHANGED <<compilerVars, sizerVars, compiles, compiledRoot, log, pool,
                 mem>>

\* compiler.Render: compileOnce.Do on the instance. The first caller builds
\* the plan from its root, executes it once into a pooled buffer, feeds the
\* size to the sizer and puts the buffer back; callers that arrive during the
\* build wait for it, so the build is one step here. A later caller passes.
CompilerOnce(t) ==
  /\ th[t].pc = "conce"
  /\ LET c == heap[io[t].inst]
         plan == BuildPlan(th[t].root)
         r == ExecutePlan(plan, th[t].root)
     IN  IF c.compiles = 0
           THEN /\ heap' = [heap EXCEPT ![io[t].inst] = [c EXCEPT
                       !.plan = plan, !.compiles = 1,
                       !.compiledRoot = th[t].root,
                       !.sizer = SizerUpdate(c.sizer, Len(r.buf))]]
                /\ \E b \in Draws :
                     /\ mem' = Written(b, r.buf)
                     /\ pool' = pool \cup {b}
                     /\ io' = [io EXCEPT ![t].got = Append(@, b),
                                         ![t].gave = Append(@, b)]
           ELSE UNCHANGED <<heap, poolVars>>
  /\ th' = [th EXCEPT ![t].pc = "cexec"]
  /\ UNCHANGED <<compilerVars, sizerVars, compiles, compiledRoot, log,
                 registry>>

\* compiler.Render after the gate: the plan executed against this call's
\* root, the sizer fed when the size deviates, and the bytes written to the
\* destination from a pooled buffer (ok: its Write succeeds) or returned.
CompilerExec(t, ok) ==
  /\ th[t].pc = "cexec"
  /\ LET c == heap[io[t].inst]
         r == ExecutePlan(c.plan, th[t].root)
         b == r.buf
     IN  /\ heap' = [heap EXCEPT ![io[t].inst].sizer =
                IF shouldUpdateStats(c.threshold, c.sizer.baseline, Len(b))
                  THEN SizerUpdate(c.sizer, Len(b)) ELSE c.sizer]
         /\ th' = [th EXCEPT ![t] = [th[t] EXCEPT
                !.pc = "done", !.plan = c.plan, !.predicted = c.sizer.baseline,
                !.buf = b, !.omitted = r.omitted, !.size = Len(b)]]
         /\ IF th[t].w
              THEN \E p \in Draws :
                     /\ mem' = Written(p, b)
                     /\ pool' = pool \cup {p}
                     /\ io' = [io EXCEPT ![t] = [@ EXCEPT
                          !.got = Append(@, p),
                          !.gave = Append(@, p),
                          !.writes = IF Len(b) > 0 THEN Append(@, b) ELSE @,
                          !.dest = IF ok THEN b ELSE SubSeq(b, 1, Len(b) \div 2),
                          !.failed = ~ok /\ Len(b) > 0]]
              ELSE /\ io' = [io EXCEPT ![t].ret =
                             [nil |-> FALSE, bytes |-> b, backing |-> 0]]
                   /\ UNCHANGED <<pool, mem>>
  /\ UNCHANGED <<compilerVars, sizerVars, compiles, compiledRoot, log,
                 registry>>

\* ------------------------------------- resetting and configuring entries

\* A map after ResetX(ids...): Clear() with no argument, Delete(id) for each
\* id otherwise.
Removed(m, ids) == [id \in Ids |-> IF ids = {} \/ id \in ids THEN 0 ELSE m[id]]

\* Faulty variant: named entries or not, the whole map is cleared.
ResetCompileCall_ClearsAll(t, ids, calls, logged) ==
  /\ th[t].pc = "idle"
  /\ MayCall(calls)
  /\ registry' = [registry EXCEPT !.compilers = Removed(@, {})]
  /\ th' = [th EXCEPT ![t] = [Call(t, "ResetCompile") EXCEPT !.pc = "done"]]
  /\ log' = IF logged THEN Append(log, GlobalEvent("ResetCompile", ids, <<>>))
                      ELSE log
  /\ UNCHANGED <<compilerVars, sizerVars, compiles, compiledRoot, poolVars,
                 heap>>

\* ResetCompile(ids...).
ResetCompileCall(t, ids, calls, logged) ==
  /\ th[t].pc = "idle"
  /\ MayCall(calls)
  /\ registry' = [registry EXCEPT !.compilers = Removed(@, ids)]
  /\ th' = [th EXCEPT ![t] = [Call(t, "ResetCompile") EXCEPT !.pc = "done"]]
  /\ log' = IF logged THEN Append(log, GlobalEvent("ResetCompile", ids, <<>>))
                      ELSE log
  /\ UNCHANGED <<compilerVars, sizerVars, compiles, compiledRoot, poolVars,
                 heap>>

\* ResetTune(ids...).
ResetTuneCall(t, ids, calls, logged) ==
  /\ th[t].pc = "idle"
  /\ MayCall(calls)
  /\ registry' = [registry EXCEPT !.tuners = Removed(@, ids)]
  /\ th' = [th EXCEPT ![t] = [Call(t, "ResetTune") EXCEPT !.pc = "done"]]
  /\ log' = IF logged THEN Append(log, GlobalEvent("ResetTune", ids, <<>>))
                      ELSE log
  /\ UNCHANGED <<compilerVars, sizerVars, compiles, compiledRoot, poolVars,
                 heap>>

\* Faulty variant: the stored Compiler is built without the configuration.
CompileConfigCall_Defaults(t, id, c, calls, logged) ==
  /\ th[t].pc = "idle"
  /\ MayCall(calls)
  /\ heap' = Append(heap, [NewCompiler(<<>>) EXCEPT !.id = id])
  /\ registry' = [registry EXCEPT !.compilers[id] = Len(heap) + 1]
  /\ th' = [th EXCEPT ![t] = [Call(t, "CompileConfig") EXCEPT !.pc = "done"]]
  /\ log' = IF logged THEN Append(log, GlobalEvent("CompileConfig", {id}, <<c>>))
                      ELSE log
  /\ UNCHANGED <<compilerVars, sizerVars, compiles, compiledRoot, poolVars>>

\* CompileConfig(id, cfg): compilers.Store(id, NewCompiler(&cfg)).
CompileConfigCall(t, id, c, calls, logged) ==
  /\ th[t].pc = "idle"
  /\ MayCall(calls)
  /\ heap' = Append(heap, [NewCompiler(<<c>>) EXCEPT !.id = id])
  /\ registry' = [registry EXCEPT !.compilers[id] = Len(heap) + 1]
  /\ th' = [th EXCEPT ![t] = [Call(t, "CompileConfig") EXCEPT !.pc = "done"]]
  /\ log' = IF logged THEN Append(log, GlobalEvent("CompileConfig", {id}, <<c>>))
                      ELSE log
  /\ UNCHANGED <<compilerVars, sizerVars, compiles, compiledRoot, poolVars>>

\* TuneConfig(id, cfg): tuners.Store(id, NewTuner(&cfg)).
TuneConfigCall(t, id, c, calls, logged) ==
  /\ th[t].pc = "idle"
  /\ MayCall(calls)
  /\ heap' = Append(heap, [NewTuner(<<c>>) EXCEPT !.id = id])
  /\ registry' = [registry EXCEPT !.tuners[id] = Len(heap) + 1]
  /\ th' = [th EXCEPT ![t] = [Call(t, "TuneConfig") EXCEPT !.pc = "done"]]
  /\ log' = IF logged THEN Append(log, GlobalEvent("TuneConfig", {id}, <<c>>))
                      ELSE log
  /\ UNCHANGED <<compilerVars, sizerVars, compiles, compiledRoot, poolVars>>

\* The configurations passed to CompileConfig.
CompilerCfgs ==
  { [Threshold |-> 10, Max |-> 3, Variance |-> 15, GrowthFactor |-> 120] }

\* The sets of ids passed to ResetCompile and ResetTune: none, and one.
IdSets == {{}} \cup {{id} : id \in Ids}

\* ------------------------------------------------------------------- specs

Next ==
  \/ \E t \in Thr, root \in Trees : RenderCall(t, root, FALSE, MaxCalls)
  \/ \E t \in Thr : OnceAcquire(t)
  \/ \E t \in Thr : Compile(t)
  \/ \E t \in Thr : OnceFinish(t)
  \/ \E t \in Thr : RenderExec(t)
  \/ \E t \in Thr : RenderStats(t)
  \/ \E t \in Thr : SampleLock(t)
  \/ \E t \in Thr : SamplePublish(t)
  \/ \E t \in Thr : CheckRead(t)
  \/ \E t \in Thr : CheckRevert(t)
  \/ \E t \in Thr, c \in Cfgs : ConfigureCall(t, c, MaxCalls)
  \/ \E t \in Thr : ConfigureSizer(t)
  \/ \E t \in Thr : ConfigurePublish(t)
  \/ \E t \in Thr, root \in Trees : ValidateCall(t, root, MaxCalls)
  \/ \E t \in Thr : Leave(t)

Spec == Init /\ [][Next]_vars

\* One goroutine calling Render and Validate one call after the other, with
\* the generated trees.
SeqNext ==
  \/ \E root \in GenTrees : RenderCall(1, root, FALSE, SeqCalls)
  \/ \E root \in GenTrees : ValidateCall(1, root, SeqCalls)
  \/ \E c \in Cfgs : ConfigureCall(1, c, SeqCalls)
  \/ ConfigureSizer(1)
  \/ ConfigurePublish(1)
  \/ OnceAcquire(1)
  \/ Compile(1)
  \/ OnceFinish(1)
  \/ RenderExec(1)
  \/ RenderStats(1)
  \/ SampleLock(1)
  \/ SamplePublish(1)
  \/ CheckRead(1)
  \/ CheckRevert(1)
  \/ Leave(1)

SeqSpec == Init /\ [][SeqNext]_vars

\* One goroutine calling UpdateStats, Reset and Configure on a sizer, one call
\* after the other.
SizerSeqNext ==
  \/ \E size \in Sizes : UpdateStatsCall(1, size, SizerCalls, TRUE)
  \/ ResetCall(1, SizerCalls, TRUE)
  \/ ResetLock(1)
  \/ ResetPublish(1)
  \/ \E c \in Cfgs : SizerConfigureCall(1, c, SizerCalls, TRUE)
  \/ ConfigureSizer(1)
  \/ ConfigurePublish(1)
  \/ SampleLock(1)
  \/ SamplePublish(1)
  \/ CheckRead(1)
  \/ CheckRevert(1)
  \/ Leave(1)

SizerSeqSpec == Init /\ [][SizerSeqNext]_vars

\* Goroutines calling UpdateStats, Reset and Configure on one sizer while
\* lock-free readers load the baseline and the phase.
SizerNext ==
  \/ \E t \in Thr, size \in Sizes : UpdateStatsCall(t, size, ConcCalls, FALSE)
  \/ \E t \in Thr : ResetCall(t, ConcCalls, FALSE)
  \/ \E t \in Thr : ResetLock(t)
  \/ \E t \in Thr : ResetPublish(t)
  \/ \E t \in Thr, c \in Cfgs : SizerConfigureCall(t, c, ConcCalls, FALSE)
  \/ \E t \in Thr : ConfigureSizer(t)
  \/ \E t \in Thr : ConfigurePublish(t)
  \/ \E t \in Thr : Observe(t, ConcCalls)
  \/ \E t \in Thr : SampleLock(t)
  \/ \E t \in Thr : SamplePublish(t)
  \/ \E t \in Thr : CheckRead(t)
  \/ \E t \in Thr : CheckRevert(t)
  \/ \E t \in Thr : Leave(t)

SizerSpec == Init /\ [][SizerNext]_vars

\* One goroutine calling Render on a Compiler, with a destination (whose Write
\* succeeds or fails) and without, one call after the other.
WriterNext ==
  \/ \E root \in WriterTrees, w \in BOOLEAN : RenderCall(1, root, w, WriterCalls)
  \/ OnceAcquire(1)
  \/ Compile(1)
  \/ OnceFinish(1)
  \/ RenderExec(1)
  \/ RenderStats(1)
  \/ \E ok \in BOOLEAN : RenderWrite(1, ok)
  \/ SampleLock(1)
  \/ SamplePublish(1)
  \/ CheckRead(1)
  \/ CheckRevert(1)
  \/ Leave(1)

WriterSpec == Init /\ [][WriterNext]_vars

\* Goroutines calling jit.Tune with the ids and templates, with a destination
\* and without.
TuneNext ==
  \/ \E t \in Thr, id \in Ids, n \in TuneTrees, w \in BOOLEAN :
        TuneCall(t, id, n, w, TuneCalls, FALSE)
  \/ \E t \in Thr : TuneLoadOrStore(t)
  \/ \E t \in Thr : TunerTune(t)
  \/ \E t \in Thr : TunerRead(t)
  \/ \E t \in Thr : TunerExec(t)
  \/ \E t \in Thr, ok \in BOOLEAN : TunerReturn(t, ok)
  \/ \E t \in Thr : Leave(t)

TuneSpec == InitWith(<<>>) /\ [][TuneNext]_vars

\* Goroutines calling jit.Compile with the ids and trees on a registry that
\* starts empty.
RegNext ==
  \/ \E t \in Thr, id \in Ids, n \in CompileTrees :
        CompileCall(t, id, n, FALSE, RegCalls, FALSE)
  \/ \E t \in Thr : CompileLoadOrStore(t)
  \/ \E t \in Thr : CompilerOnce(t)
  \/ \E t \in Thr, ok \in BOOLEAN : CompilerExec(t, ok)
  \/ \E t \in Thr : Leave(t)

RegSpec == InitWith(<<>>) /\ [][RegNext]_vars

\* One goroutine calling the package-level functions one after the other:
\* Compile and Tune, the two Config functions and the two Reset functions.
GlobalNext ==
  \/ \E id \in Ids, n \in CompileTrees, w \in BOOLEAN :
        CompileCall(1, id, n, w, GlobalCalls, TRUE)
  \/ CompileLoadOrStore(1)
  \/ CompilerOnce(1)
  \/ \E ok \in BOOLEAN : CompilerExec(1, ok)
  \/ \E ids \in IdSets : ResetCompileCall(1, ids, GlobalCalls, TRUE)
  \/ \E id \in Ids, c \in CompilerCfgs : CompileConfigCall(1, id, c, GlobalCalls, TRUE)
  \/ \E id \in Ids, n \in {Elem("div", <<Text("x")>>)} :
        TuneCall(1, id, n, FALSE, GlobalCalls, TRUE)
  \/ TuneLoadOrStore(1)
  \/ TunerTune(1)
  \/ TunerRead(1)
  \/ TunerExec(1)
  \/ \E ok \in BOOLEAN : TunerReturn(1, ok)
  \/ \E ids \in IdSets : ResetTuneCall(1, ids, GlobalCalls, TRUE)
  \/ \E id \in Ids, c \in TunerCfgs : TuneConfigCall(1, id, c, GlobalCalls, TRUE)
  \/ Leave(1)

GlobalSpec == InitWith(<<>>) /\ [][GlobalNext]_vars


\* ------------------------------------------- jit.Flatten, Flattener

\* The nodes passed to NewFlattener: the leaves, the nested trees, and fully
\* static trees, one of them rendering no bytes.
FlatTrees ==
  Leaf \cup Nested \cup
  { Elem("div", <<Static("a")>>),
    Elem("div", <<Elem("p", <<Static("a"), Static("b")>>)>>),
    Fragment(<<>>) }

\* The nodes passed to Flatten: two static ones and two with dynamic content,
\* all of different renderings.
FlattenTrees ==
  { Elem("div", <<Static("a")>>),
    Elem("div", <<Static("b")>>),
    Elem("div", <<Text("x")>>),
    Elem("div", <<Static("a"), Func(<<Static("x")>>)>>) }

\* &Flattener{bytes: b}, in the shape of the other instances.
Flattener(b) ==
  [kind |-> "Flattener", id |-> "", rootNode |-> NoNode, cfg |-> <<>>,
   threshold |-> 0, sizer |-> NewSizer(<<>>), plan |-> NilPlan, compiles |-> 0,
   compiledRoot |-> NoNode, bytes |-> b]

\* ErrDynamicContent.
ErrDynamicContent == "ErrDynamicContent"

\* Faulty variant: a node is rejected only when it is itself a dynamic node.
NewFlattener_RootOnly(n) ==
  IF isDynamicNode(n)
    THEN [err |-> ErrDynamicContent, f |-> <<>>]
    ELSE [err |-> "", f |-> <<Flattener(RenderBuilder(n))>>]

\* NewFlattener(n): (nil, ErrDynamicContent) if isDynamic(n), else the node
\* rendered once into a buffer of its own; f is <<>> for nil.
NewFlattener(n) ==
  IF isDynamic(n)
    THEN [err |-> ErrDynamicContent, f |-> <<>>]
    ELSE [err |-> "", f |-> <<Flattener(RenderBuilder(n))>>]

\* if len(w) > 0 && w[0] != nil { w[0].Write(bytes); return nil }; return
\* bytes: what the caller's record holds afterwards. The error of Write is
\* dropped; a Write that fails (ok false) takes a prefix only.
Output(r, w, ok, b) ==
  IF w
    THEN [r EXCEPT !.writes = Append(@, b),
                   !.dest = IF ok THEN b ELSE SubSeq(b, 1, Len(b) \div 2),
                   !.failed = ~ok /\ Len(b) > 0,
                   !.ret = [nil |-> TRUE, bytes |-> <<>>, backing |-> 0]]
    ELSE [r EXCEPT !.ret = [nil |-> FALSE, bytes |-> b, backing |-> 0]]

\* Flatten(id, n, w...): val, loaded := flattened.Load(id).
FlattenCall(t, id, n, w, calls, logged) ==
  /\ th[t].pc = "idle"
  /\ MayCall(calls)
  /\ th' = [th EXCEPT ![t] = [Call(t, "Flatten") EXCEPT
       !.root = n, !.w = w, !.early = (registry.flattened[id] = <<>>),
       !.pc = "flatten"]]
  /\ io' = [io EXCEPT ![t] = [NoIo EXCEPT !.id = id,
                                          !.val = registry.flattened[id]]]
  /\ log' = IF logged THEN Append(log, GlobalEvent("Flatten", {id}, <<n>>))
                      ELSE log
  /\ UNCHANGED <<compilerVars, sizerVars, compiles, compiledRoot, pool, mem,
                 globalVars>>

\* Faulty variant: the rendering of a node with dynamic content is stored too.
FlattenFinish_StoresDynamic(t, ok) ==
  /\ th[t].pc = "flatten"
  /\ LET b == IF io[t].val = <<>> THEN RenderBuilder(th[t].root)
                                  ELSE io[t].val[1]
     IN  /\ io' = [io EXCEPT ![t] = [Output(@, th[t].w, ok, b) EXCEPT
                     !.stored = (io[t].val = <<>>)]]
         /\ registry' = IF io[t].val = <<>>
                          THEN [registry EXCEPT !.flattened[io[t].id] = <<b>>]
                          ELSE registry
  /\ th' = [th EXCEPT ![t].pc = "done"]
  /\ UNCHANGED <<compilerVars, sizerVars, compiles, compiledRoot, log, pool,
                 mem, heap>>

\* The rest of Flatten. After a miss: a node with dynamic content is rendered
\* by n.Render(w...) and nothing is stored; any other node is rendered into a
\* buffer of its own and the bytes stored under id. After a hit the bytes are
\* the stored ones, whatever n is. n.Render(w...) of the node passes the
\* rendering to the destination and returns nil, or returns the rendering.
FlattenFinish(t, ok) ==
  /\ th[t].pc = "flatten"
  /\ LET n == th[t].root
         miss == io[t].val = <<>>
         b == IF miss THEN RenderBuilder(n) ELSE io[t].val[1]
     IN  /\ io' = [io EXCEPT ![t] = [Output(@, th[t].w, ok, b) EXCEPT
                     !.stored = (miss /\ ~isDynamic(n))]]
         /\ registry' = IF miss /\ ~isDynamic(n)
                          THEN [registry EXCEPT !.flattened[io[t].id] = <<b>>]
                          ELSE registry
  /\ th' = [th EXCEPT ![t].pc = "done"]
  /\ UNCHANGED <<compilerVars, sizerVars, compiles, compiledRoot, log, pool,
                 mem, heap>>

\* The map m of flattened without the entries of ids, without all for no ids.
RemovedBytes(m, ids) ==
  [id \in Ids |-> IF ids = {} \/ id \in ids THEN <<>> ELSE m[id]]

\* ResetFlatten(ids...).
ResetFlattenCall(t, ids, calls, logged) ==
  /\ th[t].pc = "idle"
  /\ MayCall(calls)
  /\ registry' = [registry EXCEPT !.flattened = RemovedBytes(@, ids)]
  /\ th' = [th EXCEPT ![t] = [Call(t, "ResetFlatten") EXCEPT !.pc = "done"]]
  /\ log' = IF logged THEN Append(log, GlobalEvent("ResetFlatten", ids, <<>>))
                      ELSE log
  /\ UNCHANGED <<compilerVars, sizerVars, compiles, compiledRoot, poolVars,
                 heap>>

\* f, err := NewFlattener(n): the caller holds the Flattener (inst) or the
\* error.
NewFlattenerCall(t, n, calls, logged) ==
  /\ th[t].pc = "idle"
  /\ MayCall(calls)
  /\ LET r == NewFlattener(n)
     IN  /\ heap' = IF r.f = <<>> THEN heap ELSE Append(heap, r.f[1])
         /\ io' = [io EXCEPT ![t] = [NoIo EXCEPT
                     !.err = r.err,
                     !.inst = IF r.f = <<>> THEN 0 ELSE Len(heap) + 1]]
  /\ th' = [th EXCEPT ![t] = [Call(t, "NewFlattener") EXCEPT
       !.root = n, !.pc = "done"]]
  /\ log' = IF logged THEN Append(log, GlobalEvent("NewFlattener", {}, <<n>>))
                      ELSE log
  /\ UNCHANGED <<compilerVars, sizerVars, compiles, compiledRoot, pool, mem,
                 registry>>

\* f.Render(w...) on the Flattener at position i of heap: f.bytes written to
\* the destination, or returned.
FlattenerRender(t, i, w, ok, calls, logged) ==
  /\ th[t].pc = "idle"
  /\ MayCall(calls)
  /\ i \in 1..Len(heap)
  /\ heap[i].kind = "Flattener"
  /\ io' = [io EXCEPT ![t] = Output([NoIo EXCEPT !.inst = i], w, ok,
                                    heap[i].bytes)]
  /\ th' = [th EXCEPT ![t] = [Call(t, "FlattenerRender") EXCEPT
       !.w = w, !.pc = "done"]]
  /\ log' = IF logged
              THEN Append(log, GlobalEvent("FlattenerRender", {}, <<>>))
              ELSE log
  /\ UNCHANGED <<compilerVars, sizerVars, compiles, compiledRoot, pool, mem,
                 globalVars>>

\* One goroutine calling Flatten, ResetFlatten, NewFlattener and the Render
\* of the Flatteners it was given, one after the other.
FlatNext ==
  \/ \E id \in Ids, n \in FlattenTrees, w \in BOOLEAN :
        FlattenCall(1, id, n, w, FlatCalls, TRUE)
  \/ \E ok \in BOOLEAN : FlattenFinish(1, ok)
  \/ \E ids \in IdSets : ResetFlattenCall(1, ids, FlatCalls, TRUE)
  \/ \E n \in FlatTrees : NewFlattenerCall(1, n, FlatCalls, TRUE)
  \/ \E i \in 1..FlatCalls, w \in BOOLEAN, ok \in BOOLEAN :
        FlattenerRender(1, i, w, ok, FlatCalls, TRUE)
  \/ Leave(1)

FlatSpec == InitWith(<<>>) /\ [][FlatNext]_vars


\* --------------------------------------- compile.go: the path slices of walk

\* A []int: its backing array (a position in the arrays allocated so far, 0
\* for none), its length and its capacity. []int{} has no array.
NoSlice == [arr |-> 0, len |-> 0, cap |-> 0]

\* The capacity append gives the new array when a slice of capacity c is
\* full. The language leaves it to the implementation: exactly one more, the
\* doubling of the gc runtime for small slices, or one to spare.
Growth == {"exact", "double", "spare"}
Grown(grow, c) ==
  CASE grow = "exact" -> c + 1
    [] grow = "double" -> IF c = 0 THEN 1 ELSE 2 * c
    [] grow = "spare" -> c + 2

\* What a slice reads from the arrays.
Read(arrays, sl) == [k \in 1..sl.len |-> arrays[sl.arr][k]]

\* childPath := append(path, i): within capacity the index is written into
\* the array path shares, else into a new array holding a copy of path.
appendInt(arrays, path, i, grow) ==
  IF path.len < path.cap
    THEN [arrays |-> [arrays EXCEPT ![path.arr][path.len + 1] = i],
          sl |-> [path EXCEPT !.len = path.len + 1]]
    ELSE LET c == Grown(grow, path.cap)
         IN  [arrays |-> Append(arrays,
                [k \in 1..c |-> IF k <= path.len THEN arrays[path.arr][k]
                                ELSE IF k = path.len + 1 THEN i ELSE 0]),
              sl |-> [arr |-> Len(arrays) + 1, len |-> path.len + 1, cap |-> c]]

\* Faulty variant: the DynamicPath keeps the slice it was given.
pathCopy_View(arrays, path) == [arrays |-> arrays, sl |-> path]

\* pathCopy := make([]int, len(path)); copy(pathCopy, path).
pathCopy(arrays, path) ==
  [arrays |-> Append(arrays, Read(arrays, path)),
   sl |-> [arr |-> Len(arrays) + 1, len |-> path.len, cap |-> path.len]]

\* The elements of the plan under construction: a DynamicPath holds a slice;
\* for the history also the node it was recorded at, the indices it was
\* recorded with and the slice it was copied from.
StaticElement(b) ==
  [type |-> "StaticContent", Content |-> b, Path |-> NoSlice, node |-> NoNode,
   was |-> <<>>, from |-> NoSlice]
PathElement(sl, n, was, from) ==
  [type |-> "DynamicPath", Content |-> <<>>, Path |-> sl, node |-> n,
   was |-> was, from |-> from]

RECURSIVE walkSlice(_, _, _, _)
RECURSIVE walkChildrenSlice(_, _, _, _, _)
\* for i, child := range children { childPath := append(path, i); jc.walk(...) }
walkChildrenSlice(children, i, st, path, grow) ==
  IF i >= Len(children) THEN st
  ELSE LET a == appendInt(st.arrays, path, i, grow)
       IN  walkChildrenSlice(children, i + 1,
             walkSlice(children[i + 1], [st EXCEPT !.arrays = a.arrays],
                       a.sl, grow),
             path, grow)

\* (jc *Compiler) walk with path as the slice it is: st is [buf, plan, arrays].
walkSlice(n, st, path, grow) ==
  IF isDynamicNode(n)
    THEN LET f == IF Len(st.buf) > 0
                    THEN [st EXCEPT !.buf = <<>>,
                                    !.plan = Append(@, StaticElement(st.buf))]
                    ELSE st
             c == pathCopy(f.arrays, path)
         IN  [f EXCEPT !.arrays = c.arrays,
                       !.plan = Append(@, PathElement(c.sl, n,
                                         Read(f.arrays, path), path))]
  ELSE IF hasDynamicChildren(n)
    THEN IF n.kind = "elem"
           THEN LET o == [st EXCEPT !.buf = st.buf \o RenderOpen(n)]
                    k == walkChildrenSlice(Nodes(n), 0, o, path, grow)
                IN  [k EXCEPT !.buf = k.buf \o RenderClose(n)]
           ELSE walkChildrenSlice(Nodes(n), 0, st, path, grow)
  ELSE [st EXCEPT !.buf = st.buf \o RenderBuilder(n)]

\* The plan as the executor reads it: every DynamicPath with the indices its
\* slice holds now.
ReadPlan(es, arrays) ==
  ExecutionPlan([i \in 1..Len(es) |->
    IF es[i].type = "StaticContent" THEN StaticContent(es[i].Content)
    ELSE DynamicPath(Read(arrays, es[i].Path))])

\* Trees with two dynamic nodes side by side at depth two to four.
DeepTrees ==
  { Elem("div", <<Elem("p", <<Text("x"), Text("y")>>)>>),
    Elem("div", <<Elem("p", <<Elem("p", <<Text("x"), Static("a"), Text("y")>>)>>)>>),
    Elem("div", <<Static("a"),
                  Elem("p", <<Elem("p", <<Elem("p", <<Text("x"), Text("y")>>),
                                          Text("x")>>)>>)>>) }

\* Step 1 of compile: jc.walk(rootNode, &staticBuffer, plan, []int{}) and the
\* flush of the trailing static bytes; the caller then has the plan.
CompileWalk(t, n, grow, calls) ==
  /\ th[t].pc = "idle"
  /\ MayCall(calls)
  /\ LET st == walkSlice(n, [buf |-> <<>>, plan |-> <<>>, arrays |-> <<>>],
                         NoSlice, grow)
         es == IF Len(st.buf) > 0 THEN Append(st.plan, StaticElement(st.buf))
                                  ELSE st.plan
     IN  /\ th' = [th EXCEPT ![t] = [Call(t, "compile") EXCEPT
                     !.root = n, !.plan = ReadPlan(es, st.arrays),
                     !.pc = "done"]]
         /\ io' = [io EXCEPT ![t] = [NoIo EXCEPT !.arrays = st.arrays,
                                                 !.paths = es]]
  /\ UNCHANGED <<compilerVars, sizerVars, compiles, compiledRoot, log, pool,
                 mem, globalVars>>

\* One goroutine building plans, under each way append may grow a slice.
WalkNext ==
  \/ \E n \in GenTrees \cup DeepTrees, grow \in Growth :
        CompileWalk(1, n, grow, WalkCalls)
  \/ Leave(1)

WalkSpec == Init /\ [][WalkNext]_vars


\* --------------------------- adaptive.go: the critical sections field by field

\* The sizes passed to UpdateStats where the critical sections are followed.
LockSizes == {100, 200}

\* Where a goroutine that wants as.mu stands once it has it.
Locked(pc) ==
  CASE pc = "sample" -> "s.active"
    [] pc = "revert" -> "r.sum"
    [] pc = "reset" -> "z.sum"
    [] pc = "cfg" -> "c.params"

\* Faulty variant: the critical section is entered without the mutex.
SizerLock_NoMutex(t) ==
  /\ th[t].pc \in {"sample", "revert", "reset", "cfg"}
  /\ th' = [th EXCEPT ![t].pc = Locked(th[t].pc)]
  /\ UNCHANGED <<compilerVars, sizerVars, compiles, compiledRoot, log>>
  /\ UNCHANGED extVars

\* as.mu.Lock() in sample, check, Reset and Configure.
SizerLock(t) ==
  /\ th[t].pc \in {"sample", "revert", "reset", "cfg"}
  /\ mu = 0
  /\ mu' = t
  /\ th' = [th EXCEPT ![t].pc = Locked(th[t].pc)]
  /\ UNCHANGED <<baseline, active, sum, count, max, variance, growthFactor,
                 compilerVars, compiles, compiledRoot, log>>
  /\ UNCHANGED extVars

\* sample: if atomic.LoadInt64(&as.active) == 0 { return } (the deferred unlock
\* runs).
SampleRecheck(t) ==
  /\ th[t].pc = "s.active"
  /\ IF active = 0
       THEN /\ mu' = 0
            /\ th' = [th EXCEPT ![t] = Return([th[t] EXCEPT !.late = TRUE])]
       ELSE /\ th' = [th EXCEPT ![t].pc = "s.sum"]
            /\ UNCHANGED mu
  /\ UNCHANGED <<baseline, active, sum, count, max, variance, growthFactor,
                 compilerVars, compiles, compiledRoot, log>>
  /\ UNCHANGED extVars

\* sample: as.sum += size.
SampleSum(t) ==
  /\ th[t].pc = "s.sum"
  /\ sum' = sum + th[t].size
  /\ th' = [th EXCEPT ![t].pc = "s.count"]
  /\ UNCHANGED <<baseline, active, mu, count, max, variance, growthFactor,
                 compilerVars, compiles, compiledRoot, log>>
  /\ UNCHANGED extVars

\* sample: as.count++ and the test as.count >= as.max; without enough samples
\* the deferred unlock runs. For the history the sample is now counted in.
SampleCount(t) ==
  /\ th[t].pc = "s.count"
  /\ count' = count + 1
  /\ log' = Append(log, th[t].size)
  /\ IF count + 1 >= max
       THEN /\ th' = [th EXCEPT ![t].pc = "s.baseline"]
            /\ UNCHANGED mu
       ELSE /\ mu' = 0
            /\ th' = [th EXCEPT ![t] = Return(th[t])]
  /\ UNCHANGED <<baseline, active, sum, max, variance, growthFactor,
                 compilerVars, compiles, compiledRoot>>
  /\ UNCHANGED extVars

\* sample: the store of the new baseline.
SampleBaseline(t) ==
  /\ th[t].pc = "s.baseline"
  /\ baseline' = NewBaseline(sum, count, growthFactor)
  /\ th' = [th EXCEPT ![t].pc = "publish"]
  /\ UNCHANGED <<active, mu, sum, count, max, variance, growthFactor,
                 compilerVars, compiles, compiledRoot, log>>
  /\ UNCHANGED extVars

\* check: as.sum = size.
RevertSum(t) ==
  /\ th[t].pc = "r.sum"
  /\ sum' = th[t].size
  /\ th' = [th EXCEPT ![t].pc = "r.count"]
  /\ UNCHANGED <<baseline, active, mu, count, max, variance, growthFactor,
                 compilerVars, compiles, compiledRoot, log>>
  /\ UNCHANGED extVars

\* check: as.count = 1. For the history a new run starts with this sample.
RevertCount(t) ==
  /\ th[t].pc = "r.count"
  /\ count' = 1
  /\ log' = <<th[t].size>>
  /\ th' = [th EXCEPT ![t].pc = "r.active"]
  /\ UNCHANGED <<baseline, active, mu, sum, max, variance, growthFactor,
                 compilerVars, compiles, compiledRoot>>
  /\ UNCHANGED extVars

\* check: the store of active = 1 and as.mu.Unlock().
RevertActive(t) ==
  /\ th[t].pc = "r.active"
  /\ active' = 1
  /\ mu' = 0
  /\ th' = [th EXCEPT ![t] = Return(th[t])]
  /\ UNCHANGED <<baseline, sum, count, max, variance, growthFactor,
                 compilerVars, compiles, compiledRoot, log>>
  /\ UNCHANGED extVars

\* Configure: as.max, as.variance and as.growthFactor are assigned.
ConfigureParams(t) ==
  /\ th[t].pc = "c.params"
  /\ max' = th[t].arg.Max
  /\ variance' = th[t].arg.Variance
  /\ growthFactor' = th[t].arg.GrowthFactor
  /\ th' = [th EXCEPT ![t].pc = "c.sum"]
  /\ UNCHANGED <<baseline, active, mu, sum, count, compilerVars, compiles,
                 compiledRoot, log>>
  /\ UNCHANGED extVars

\* Reset and Configure: as.sum = 0.
ClearSum(t) ==
  /\ th[t].pc \in {"z.sum", "c.sum"}
  /\ sum' = 0
  /\ th' = [th EXCEPT ![t].pc = IF th[t].pc = "z.sum" THEN "z.count"
                                                      ELSE "c.count"]
  /\ UNCHANGED <<baseline, active, mu, count, max, variance, growthFactor,
                 compilerVars, compiles, compiledRoot, log>>
  /\ UNCHANGED extVars

\* Reset and Configure: as.count = 0. For the history no sample is counted in
\* any more.
ClearCount(t) ==
  /\ th[t].pc \in {"z.count", "c.count"}
  /\ count' = 0
  /\ log' = <<>>
  /\ th' = [th EXCEPT ![t].pc = IF th[t].pc = "z.count" THEN "z.baseline"
                                                        ELSE "c.baseline"]
  /\ UNCHANGED <<baseline, active, mu, sum, max, variance, growthFactor,
                 compilerVars, compiles, compiledRoot>>
  /\ UNCHANGED extVars

\* Reset and Configure: the store of baseline = 0; the store of active and
\* the unlock follow.
ClearBaseline(t) ==
  /\ th[t].pc \in {"z.baseline", "c.baseline"}
  /\ baseline' = 0
  /\ th' = [th EXCEPT ![t].pc = IF th[t].pc = "z.baseline" THEN "resetpub"
                                                           ELSE "cfgpub"]
  /\ UNCHANGED <<active, mu, sum, count, max, variance, growthFactor,
                 compilerVars, compiles, compiledRoot, log>>
  /\ UNCHANGED extVars

\* Goroutines calling UpdateStats, Reset and Configure on one sizer, every
\* assignment inside a critical section a step of its own.
LockNext ==
  \/ \E t \in Thr, size \in LockSizes : UpdateStatsCall(t, size, LockCalls, FALSE)
  \/ \E t \in Thr : ResetCall(t, LockCalls, FALSE)
  \/ \E t \in Thr, c \in Cfgs : SizerConfigureCall(t, c, LockCalls, FALSE)
  \/ \E t \in Thr : CheckRead(t)
  \/ \E t \in Thr : SizerLock(t)
  \/ \E t \in Thr : SampleRecheck(t)
  \/ \E t \in Thr : SampleSum(t)
  \/ \E t \in Thr : SampleCount(t)
  \/ \E t \in Thr : SampleBaseline(t)
  \/ \E t \in Thr : SamplePublish(t)
  \/ \E t \in Thr : RevertSum(t)
  \/ \E t \in Thr : RevertCount(t)
  \/ \E t \in Thr : RevertActive(t)
  \/ \E t \in Thr : ConfigureParams(t)
  \/ \E t \in Thr : ClearSum(t)
  \/ \E t \in Thr : ClearCount(t)
  \/ \E t \in Thr : ClearBaseline(t)
  \/ \E t \in Thr : ResetPublish(t)
  \/ \E t \in Thr : ConfigurePublish(t)
  \/ \E t \in Thr : Leave(t)

LockSpec == Init /\ [][LockNext]_vars


\* Goroutines calling UpdateStats on one sizer and nothing else.
StaleNext ==
  \/ \E t \in Thr, size \in LockSizes : UpdateStatsCall(t, size, StaleCalls, FALSE)
  \/ \E t \in Thr : SampleLock(t)
  \/ \E t \in Thr : SamplePublish(t)
  \/ \E t \in Thr : CheckRead(t)
  \/ \E t \in Thr : CheckRevert(t)
  \/ \E t \in Thr : Leave(t)

StaleSpec == Init /\ [][StaleNext]_vars

\* A caller that has sizes of any kind observed first and from some call on
\* the same size s every time, without end: tune feeds the sizer on every
\* render, and a tree rendered again and again has one size. log is <<>>
\* before that call and <<s>> from it on.
Varied == log = <<>>

\* as.UpdateStats(s) of the constant part; the calls are not counted.
FeedConstant(t, s) ==
  /\ th[t].pc = "idle"
  /\ log \in {<<>>, <<s>>}
  /\ th' = [th EXCEPT ![t] = Route([Idle EXCEPT !.op = "UpdateStats",
                                                !.calls = th[t].calls],
                                   s, "sizer")]
  /\ log' = <<s>>
  /\ UNCHANGED <<compilerVars, sizerVars, compiles, compiledRoot>>
  /\ UNCHANGED extVars

ConstNext ==
  \/ Varied /\ \E size \in Sizes : UpdateStatsCall(1, size, ConstCalls, FALSE)
  \/ \E s \in Sizes : FeedConstant(1, s)
  \/ SampleLock(1)
  \/ SamplePublish(1)
  \/ CheckRead(1)
  \/ CheckRevert(1)
  \/ Leave(1)

\* The caller goes on calling: a step that can be taken is taken.
ConstSpec == Init /\ [][ConstNext]_vars /\ WF_vars(ConstNext)

\* A Compiler that goes on receiving Render calls, one after the other, with
\* the trees of the concurrent specification; the calls are not counted.
RenderLoop(t, root) ==
  /\ th[t].pc = "idle"
  /\ th' = [th EXCEPT ![t] = [Idle EXCEPT
               !.op = "Render", !.calls = th[t].calls, !.pc = "once",
               !.root = root, !.early = ~onceDone]]
  /\ UNCHANGED <<compilerVars, sizerVars, compiles, compiledRoot>>
  /\ UNCHANGED log
  /\ UNCHANGED extVars

LoopNext ==
  \/ \E root \in Trees : RenderLoop(1, root)
  \/ OnceAcquire(1)
  \/ Compile(1)
  \/ OnceFinish(1)
  \/ RenderExec(1)
  \/ RenderStats(1)
  \/ SampleLock(1)
  \/ SamplePublish(1)
  \/ CheckRead(1)
  \/ CheckRevert(1)
  \/ Leave(1)

\* The caller goes on calling: a step that can be taken is taken.
LoopSpec == Init /\ [][LoopNext]_vars /\ WF_vars(LoopNext)

\* A Compiler as NewCompiler made it, with the defaults or one of the
\* configurations, that receives Render calls only, one after the other.
FreshInit == \E c \in {<<>>} \cup {<<x>> : x \in Cfgs \cup CompilerCfgs} : InitWith(c)

FreshNext ==
  \/ \E root \in Trees : RenderCall(1, root, FALSE, FreshCalls)
  \/ OnceAcquire(1)
  \/ Compile(1)
  \/ OnceFinish(1)
  \/ RenderExec(1)
  \/ RenderStats(1)
  \/ SampleLock(1)
  \/ SamplePublish(1)
  \/ CheckRead(1)
  \/ CheckRevert(1)
  \/ Leave(1)

FreshSpec == FreshInit /\ [][FreshNext]_vars

\* ------------------------------------------------------------ the claims
\* What the claims speak of, stated without the plan: the classification of a
\* node by its own fields, positions by descent, and rendering.

\* n itself is a dynamic node.
DynamicHere(n) == n.dyn \/ n.kind \in {"func", "cond"}

RECURSIVE FullyStatic(_)
\* No node of the tree is dynamic.
FullyStatic(n) ==
  /\ ~DynamicHere(n)
  /\ \A i \in 1..Len(n.kids) : FullyStatic(n.kids[i])

RECURSIVE SameStatic(_, _)
\* b has the structure and the static content of a: they differ at most in
\* what stands at a's dynamic positions.
SameStatic(a, b) ==
  IF DynamicHere(a) \/ DynamicHere(b) THEN DynamicHere(a) /\ DynamicHere(b)
  ELSE /\ a.kind = b.kind
       /\ a.tag = b.tag
       /\ Len(a.kids) = Len(b.kids)
       /\ \A i \in 1..Len(a.kids) : SameStatic(a.kids[i], b.kids[i])

RECURSIVE SameShape(_, _)
\* b has the shape of a: the same kinds, the same dynamic positions and the
\* same numbers of children; static content may differ.
SameShape(a, b) ==
  IF DynamicHere(a) \/ DynamicHere(b) THEN DynamicHere(a) /\ DynamicHere(b)
  ELSE /\ a.kind = b.kind
       /\ Len(a.kids) = Len(b.kids)
       /\ \A i \in 1..Len(a.kids) : SameShape(a.kids[i], b.kids[i])

RECURSIVE Frozen(_, _)
RECURSIVE FrozenAll(_, _, _)
FrozenAll(as, bs, i) ==
  IF i > Len(as) THEN <<>> ELSE Frozen(as[i], bs[i]) \o FrozenAll(as, bs, i + 1)
\* For b of the shape of a: a's bytes at every static position and b's
\* rendering at every dynamic position.
Frozen(a, b) ==
  IF DynamicHere(a) THEN RenderBuilder(b)
  ELSE IF FullyStatic(a) THEN RenderBuilder(a)
  ELSE IF a.kind = "elem"
         THEN <<<<"open", a.tag>>>> \o FrozenAll(a.kids, b.kids, 1)
                \o <<<<"close", a.tag>>>>
         ELSE FrozenAll(a.kids, b.kids, 1)

RECURSIVE Reachable(_, _)
\* Every index of the path is below the number of children of the node the
\* indices before it lead to.
Reachable(n, path) ==
  \/ path = <<>>
  \/ /\ Head(path) < Len(Nodes(n))
     /\ Reachable(Nodes(n)[Head(path) + 1], Tail(path))

RECURSIVE NodeAt(_, _)
\* The node a reachable path leads to.
NodeAt(n, path) ==
  IF path = <<>> THEN n ELSE NodeAt(Nodes(n)[Head(path) + 1], Tail(path))

\* The positions of the plan's DynamicPath elements that root cannot resolve.
Unresolvable(plan, root) ==
  {i \in 1..Len(plan.Elements) :
     /\ plan.Elements[i].type = "DynamicPath"
     /\ ~Reachable(root, plan.Elements[i].Path)}

\* What one plan element is to contribute for root.
Contribution(e, root) ==
  IF e.type = "StaticContent" THEN e.Content
  ELSE IF Reachable(root, e.Path) THEN RenderBuilder(NodeAt(root, e.Path))
  ELSE <<>>

RECURSIVE Contributions(_, _, _)
Contributions(plan, root, i) ==
  IF i > Len(plan.Elements) THEN <<>>
  ELSE Contribution(plan.Elements[i], root) \o Contributions(plan, root, i + 1)

\* Goroutine t has executed a plan in its Render call.
Executed(t) ==
  /\ th[t].op = "Render"
  /\ \/ th[t].pc \in {"stats", "done"}
     \/ th[t].pc \in {"sample", "publish", "check", "revert"} /\ th[t].ctx = "render"

\* Goroutine t's Render, or Validate, has returned.
Rendered(t) == th[t].op = "Render" /\ th[t].pc = "done"
Validated(t) == th[t].op = "Validate" /\ th[t].pc = "done"

\* C1: for any number of concurrent first-time Render calls the plan build
\* runs exactly once, and every caller that executes a plan executes the
\* completed one, never a nil plan.
C1_BuiltExactlyOnce ==
  /\ compiles <= 1
  /\ onceDone => compiles = 1 /\ ~executionPlan.nil
  /\ \A t \in Thr : Executed(t) =>
       /\ onceDone
       /\ ~th[t].plan.nil
       /\ th[t].plan = executionPlan
       /\ th[t].plan = BuildPlan(compiledRoot)

\* Two callers that both arrived before the build was done have both executed
\* the plan.
C1_Witness ==
  \E t, u \in Thr :
    /\ t # u
    /\ Rendered(t) /\ Rendered(u)
    /\ th[t].early /\ th[u].early

\* C2: concurrent first-time Render calls with trees of one structure and
\* static content each return the direct rendering of the caller's own tree.
C2_ConcurrentFirstRenders ==
  \A t \in Thr :
    (Rendered(t) /\ th[t].early /\ SameStatic(compiledRoot, th[t].root)) =>
      /\ ~th[t].plan.nil
      /\ th[t].buf = RenderBuilder(th[t].root)

\* Two first-time callers with different dynamic content have both returned.
C2_Witness ==
  \E t, u \in Thr :
    /\ t # u
    /\ Rendered(t) /\ Rendered(u)
    /\ th[t].early /\ th[u].early
    /\ SameStatic(th[t].root, th[u].root)
    /\ th[t].buf # th[u].buf

\* C3: every Render with a tree that shares the structure and the static
\* content of the first tree returns the direct rendering of the tree passed
\* to that call.
C3_DynamicReEvaluated ==
  \A t \in Thr :
    (Rendered(t) /\ SameStatic(compiledRoot, th[t].root)) =>
      th[t].buf = RenderBuilder(th[t].root)

\* A later Render whose dynamic content differs from the first tree's.
C3_Witness ==
  \E t \in Thr :
    /\ Rendered(t) /\ ~th[t].early
    /\ SameStatic(compiledRoot, th[t].root)
    /\ ~FullyStatic(compiledRoot)
    /\ RenderBuilder(th[t].root) # RenderBuilder(compiledRoot)

\* C4 as stated: every fully static tree compiles to exactly one element, a
\* StaticContent with the bytes of its direct rendering.
C4_Original ==
  (~executionPlan.nil /\ FullyStatic(compiledRoot)) =>
    /\ Len(executionPlan.Elements) = 1
    /\ executionPlan.Elements[1] = StaticContent(RenderBuilder(compiledRoot))

\* C4 as amended: a fully static tree with a non-empty rendering compiles to
\* exactly one element, a StaticContent with the bytes of its direct rendering;
\* one that renders no bytes compiles to a plan without elements.
C4_StaticTreeOneElement ==
  (~executionPlan.nil /\ FullyStatic(compiledRoot)) =>
    IF RenderBuilder(compiledRoot) = <<>>
      THEN executionPlan.Elements = <<>>
      ELSE executionPlan.Elements = <<StaticContent(RenderBuilder(compiledRoot))>>

\* A fully static tree with children has been compiled.
C4_Witness ==
  /\ ~executionPlan.nil
  /\ FullyStatic(compiledRoot)
  /\ Len(compiledRoot.kids) >= 2
  /\ Len(executionPlan.Elements) = 1

\* C5: once the plan is built its element sequence is the same in every later
\* state, whatever Render, Validate and Configure calls follow.
C5_PlanImmutable ==
  [][~executionPlan.nil => executionPlan' = executionPlan]_vars

\* A later Render with another tree than the compiled one has returned.
C5_Witness ==
  \E t \in Thr :
    /\ Rendered(t) /\ ~th[t].early
    /\ th[t].root # compiledRoot
    /\ BuildPlan(th[t].root) # executionPlan

\* C6: a later Render with a tree of the same shape carries the first tree's
\* bytes at every static position and the later tree's content at every
\* dynamic position.
C6_StaticFrozen ==
  \A t \in Thr :
    (Rendered(t) /\ SameShape(compiledRoot, th[t].root)) =>
      th[t].buf = Frozen(compiledRoot, th[t].root)

\* A later Render whose tree has other static content: its output is neither
\* tree's direct rendering.
C6_Witness ==
  \E t \in Thr :
    /\ Rendered(t)
    /\ SameShape(compiledRoot, th[t].root)
    /\ th[t].buf # RenderBuilder(th[t].root)
    /\ th[t].buf # RenderBuilder(compiledRoot)

\* C7: Render never fails on a structurally incompatible tree: an element
\* whose path does not resolve contributes no bytes, every other element is
\* emitted in plan order, and the call completes.
C7_SilentOmission ==
  \A t \in Thr :
    /\ th[t].pc # "panic"
    /\ Executed(t) =>
         /\ th[t].buf = Contributions(th[t].plan, th[t].root, 1)
         /\ th[t].omitted = Unresolvable(th[t].plan, th[t].root)

\* A Render that omitted an element and still emitted the others has returned.
C7_Witness ==
  \E t \in Thr :
    /\ Rendered(t)
    /\ th[t].omitted # {}
    /\ th[t].buf # <<>>

\* C8: Validate fails exactly when a plan exists and some DynamicPath has an
\* index at or above the number of children of the node reached.
C8_ValidateIff ==
  \A t \in Thr :
    Validated(t) =>
      (th[t].verr.mismatch <=>
         (~th[t].plan.nil /\ Unresolvable(th[t].plan, th[t].root) # {}))

\* Validate has failed on a tree that lacks a child the plan descends to.
C8_Witness ==
  \E t \in Thr :
    /\ Validated(t)
    /\ th[t].verr.mismatch

\* The least element of a non-empty set of numbers.
Least(S) == CHOOSE x \in S : \A y \in S : x <= y

\* The depths (0-based) at which the path fails to resolve in root.
FailDepths(root, path) ==
  {d \in 0..(Len(path) - 1) : ~Reachable(root, SubSeq(path, 1, d + 1))}

\* C9: a failing Validate reports the first unresolvable DynamicPath in plan
\* order, the shallowest depth at which it fails, the index expected there and
\* the number of children available there.
C9_FirstMismatch ==
  \A t \in Thr :
    (Validated(t) /\ th[t].verr.mismatch) =>
      LET i == Least(Unresolvable(th[t].plan, th[t].root))
          path == th[t].plan.Elements[i].Path
          d == Least(FailDepths(th[t].root, path))
          at == NodeAt(th[t].root, SubSeq(path, 1, d))
      IN  th[t].verr = [mismatch |-> TRUE, path |-> path, depth |-> d,
                        idx |-> path[d + 1], children |-> Len(Nodes(at))]

\* Validate has failed below the root, on a path that is not the plan's first.
C9_Witness ==
  \E t \in Thr :
    /\ Validated(t)
    /\ th[t].verr.mismatch
    /\ th[t].verr.depth >= 1
    /\ \E i \in 1..Len(th[t].plan.Elements) :
         /\ th[t].plan.Elements[i].type = "DynamicPath"
         /\ th[t].plan.Elements[i].Path # th[t].verr.path
         /\ Reachable(th[t].root, th[t].plan.Elements[i].Path)

\* C10: Validate(root) succeeds exactly when Render(root) omits no
\* DynamicPath element.
C10_ValidateMatchesExecutor ==
  \A t \in Thr :
    /\ (Rendered(t) /\ ~th[t].plan.nil) =>
         ((th[t].omitted = {}) <=> ~Validate(th[t].plan, th[t].root).mismatch)
    /\ (Validated(t) /\ ~th[t].plan.nil) =>
         (~th[t].verr.mismatch <=> ExecutePlan(th[t].plan, th[t].root).omitted = {})

\* A Render has omitted an element of a plan with several DynamicPaths.
C10_Witness ==
  \E t \in Thr :
    /\ Rendered(t)
    /\ th[t].omitted # {}
    /\ Cardinality({i \in 1..Len(th[t].plan.Elements) :
                      th[t].plan.Elements[i].type = "DynamicPath"}) >= 2


\* ------------------------------------------------- the claims on the sizer

\* No call is in progress.
Quiet == \A t \in Thr : th[t].pc \in {"idle", "done"}

\* How the recorded history starts: with the sizer as constructed, or with the
\* Reset or Configure that began it.
StartOp ==
  IF log # <<>> /\ log[1].op # "UpdateStats" THEN log[1].op ELSE "New"

\* The position of the first UpdateStats call after that start.
FirstSample == IF StartOp = "New" THEN 1 ELSE 2

RECURSIVE SumSizes(_, _)
\* The sum of the sizes passed by the calls i..j of the history.
SumSizes(i, j) == IF i > j THEN 0 ELSE log[i].size + SumSizes(i + 1, j)

\* floor(floor(total / m) * growth / 100)
ExpectedBaseline(total, m, growth) == ((total \div m) * growth) \div 100

\* C11: from a fresh or reset sizer with maxSamples = m the sizer stays in
\* Sampling with baseline 0 for the first m-1 UpdateStats calls, and the m-th
\* call moves it to Baseline with floor(floor(sum/m) * growth / 100), a value
\* of the sum of the samples alone.
C11_SamplingArithmetic ==
  LET k == Len(log) - FirstSample + 1
  IN  (Quiet /\ StartOp \in {"New", "Reset"} /\ k <= max) =>
        IF k < max
          THEN active = 1 /\ baseline = 0
          ELSE /\ active = 0
               /\ baseline = ExpectedBaseline(SumSizes(FirstSample, Len(log)),
                                              max, growthFactor)

\* A run of at least two samples that are not all equal has established its
\* baseline.
C11_Witness ==
  /\ Quiet
  /\ StartOp \in {"New", "Reset"}
  /\ max >= 2
  /\ Len(log) - FirstSample + 1 = max
  /\ \E i, j \in FirstSample..Len(log) : log[i].size # log[j].size
  /\ active = 0
  /\ baseline > 0

\* |a - b|
Dist(a, b) == IF a >= b THEN a - b ELSE b - a

\* The last call of the history was UpdateStats on a sizer in Baseline phase
\* with a baseline above 0, and it has returned.
CheckedLast ==
  /\ Quiet
  /\ log # <<>>
  /\ log[Len(log)].op = "UpdateStats"
  /\ log[Len(log)].pre.active = 0
  /\ log[Len(log)].pre.baseline > 0

\* The size of a call exceeds the variance threshold around the baseline the
\* call found.
Exceeds(e) ==
  Dist(e.size, e.pre.baseline) * 100 > e.pre.baseline * e.pre.variance

\* C12: in Baseline phase with baseline b > 0, UpdateStats(s) reverts to
\* Sampling exactly when |s - b| * 100 > b * variance; when it does not,
\* phase, baseline, sum and count are unchanged.
C12_VarianceCheck ==
  CheckedLast =>
    LET e == log[Len(log)]
    IN  /\ active = 1 <=> Exceeds(e)
        /\ ~Exceeds(e) =>
             /\ baseline = e.pre.baseline
             /\ sum = e.pre.sum
             /\ count = e.pre.count

\* A size exactly on the threshold has been checked and has not reverted.
C12_Witness ==
  /\ CheckedLast
  /\ LET e == log[Len(log)]
     IN  /\ e.size # e.pre.baseline
         /\ Dist(e.size, e.pre.baseline) * 100 = e.pre.baseline * e.pre.variance
  /\ active = 0

\* The calls of the history that found the sizer in Baseline phase with a
\* baseline above 0 and passed a size beyond the variance threshold.
Triggers ==
  {j \in 1..Len(log) :
     /\ log[j].op = "UpdateStats"
     /\ log[j].pre.active = 0
     /\ log[j].pre.baseline > 0
     /\ Exceeds(log[j])}

\* The greatest element of a non-empty set of numbers.
Greatest(S) == CHOOSE x \in S : \A y \in S : y <= x

\* C13: a size s that triggers a revert seeds the new run (sum = s, count = 1)
\* and the old baseline stays published; with maxSamples = m >= 2 the sizer
\* stays so for m-2 further UpdateStats calls and the (m-1)-th establishes the
\* baseline floor(floor((s + the later samples) / m) * growth / 100).
C13_RevertSeedsNewRun ==
  (Quiet /\ Triggers # {}) =>
    LET j == Greatest(Triggers)
        k == Len(log) - j
    IN  /\ k = 0 =>
              /\ sum = log[j].size
              /\ count = 1
              /\ active = 1
              /\ baseline = log[j].pre.baseline
        /\ (max >= 2 /\ k < max - 1) =>
              /\ active = 1
              /\ baseline = log[j].pre.baseline
        /\ (max >= 2 /\ k = max - 1) =>
              /\ active = 0
              /\ baseline = ExpectedBaseline(SumSizes(j, Len(log)), max,
                                             growthFactor)

\* A reverted run has been completed and has established another baseline.
C13_Witness ==
  /\ Quiet
  /\ Triggers # {}
  /\ max >= 2
  /\ Len(log) - Greatest(Triggers) = max - 1
  /\ active = 0
  /\ baseline # log[Greatest(Triggers)].pre.baseline

\* C14: after any sequence of UpdateStats, Reset and Configure calls,
\* baseline = 0 implies phase = Sampling.
C14_ZeroBaselineOnlySampling ==
  Quiet => (baseline = 0 => active = 1)

\* A lock-free reader has loaded the baseline and the phase.
Observed(t) == th[t].op = "Observe" /\ th[t].pc = "done"

\* C15: the baseline is published together with the phase transition that
\* computes it: no lock-free reader sees the newly computed baseline while the
\* phase still reads Sampling, nor the phase Baseline with another baseline
\* than the one computed.
C15_AtomicPublication ==
  \A t \in Thr :
    Observed(t) =>
      /\ (th[t].seen.storing /\ th[t].seen.baseline > 0) => th[t].seen.active = 0
      /\ th[t].seen.active = 0 => th[t].seen.baseline = th[t].seen.computed

\* The last call was Reset, or Configure, and it has returned.
LastWas(op) == Quiet /\ Len(log) = 1 /\ log[1].op = op

\* C16: Reset, from any reachable state, leaves phase Sampling, baseline 0,
\* sum 0 and count 0, and the three parameters as they were.
C16_Reset ==
  LastWas("Reset") =>
    /\ active = 1
    /\ baseline = 0
    /\ sum = 0
    /\ count = 0
    /\ max = log[1].pre.max
    /\ variance = log[1].pre.variance
    /\ growthFactor = log[1].pre.growthFactor

\* Reset has returned on a sizer that was in Baseline phase with parameters
\* other than the defaults.
C16_Witness ==
  /\ LastWas("Reset")
  /\ log[1].pre.active = 0
  /\ log[1].pre.baseline > 0
  /\ log[1].pre.sum > 0
  /\ log[1].pre.max # DefaultMax
  /\ active = 1

\* C17: Configure(max, variance, growth), from any reachable state, replaces
\* the three parameters and resets the sizer to Sampling with baseline 0, sum 0
\* and count 0, so that the next baseline is established after exactly max
\* samples, with the new growth factor.
C17_Configure ==
  (Quiet /\ StartOp = "Configure") =>
    LET c == log[1].arg
        k == Len(log) - 1
    IN  /\ max = c.Max
        /\ variance = c.Variance
        /\ growthFactor = c.GrowthFactor
        /\ k = 0 => (active = 1 /\ baseline = 0 /\ sum = 0 /\ count = 0)
        /\ k < c.Max => (active = 1 /\ baseline = 0)
        /\ k = c.Max =>
             /\ active = 0
             /\ baseline = ExpectedBaseline(SumSizes(2, Len(log)), c.Max,
                                            c.GrowthFactor)

\* Configure changed the parameters of a sizer in Baseline phase, and the
\* samples it asks for have then established a baseline.
C17_Witness ==
  /\ Quiet
  /\ StartOp = "Configure"
  /\ log[1].pre.active = 0
  /\ log[1].pre.sum > 0
  /\ log[1].pre.growthFactor # log[1].arg.GrowthFactor
  /\ log[1].arg.Max >= 2
  /\ Len(log) - 1 = log[1].arg.Max
  /\ baseline > 0

\* C18: the unlocked phase check is advisory: a call routed to the sampling
\* path that finds, under the lock, the phase already Baseline commits
\* nothing; sum, count, baseline and phase stay as they are.
C18_LateSampleCommitsNothing ==
  [][\A t \in Thr :
       (th[t].pc = "sample" /\ th'[t].pc # "sample" /\ active = 0) =>
         /\ sum' = sum
         /\ count' = count
         /\ baseline' = baseline
         /\ active' = active]_vars

\* A call routed to the sampling path has found the baseline established by
\* another goroutine and has returned.
C18_Witness ==
  \E t \in Thr :
    /\ th[t].op = "UpdateStats"
    /\ th[t].pc = "done"
    /\ th[t].late
    /\ active = 0
    /\ baseline > 0

\* The size Render measured deviates from the size it predicted by more than
\* the Compiler's threshold, or nothing was predicted.
MustFeed(r) ==
  \/ r.predicted = 0
  \/ Dist(Len(r.buf), r.predicted) * 100 > r.predicted * threshold

\* The sizer's phase, baseline and statistics.
SizerData == <<baseline, active, sum, count>>

\* Goroutine t is inside UpdateStats, called for the reason ctx.
Feeding(t, ctx) ==
  /\ th[t].op = "Render"
  /\ th[t].pc \in {"sample", "publish", "check", "revert"}
  /\ th[t].ctx = ctx

\* C19: Render passes the size it measured to the sizer exactly when the
\* deviation from the predicted size exceeds the Compiler's threshold (a
\* prediction of 0 always does); a Render that does not leaves the sizer as
\* it is.
C19_FeedOnlyOnDeviation ==
  [][/\ \A t \in Thr :
          (th[t].pc = "stats" /\ th'[t].pc # "stats") =>
            IF MustFeed(th[t])
              THEN /\ th'[t].pc \in {"sample", "check"}
                   /\ th'[t].ctx = "render"
                   /\ th'[t].size = Len(th[t].buf)
              ELSE /\ th'[t].pc = "done"
                   /\ SizerData' = SizerData
     /\ SizerData' # SizerData =>
          \E t \in Thr :
            \/ th[t].op = "Configure"
            \/ Feeding(t, "compile")
            \/ Feeding(t, "render") /\ MustFeed(th[t])]_vars

\* A Render after the first has predicted a size above 0, measured another
\* one within the threshold, and returned without calling the sizer.
C19_Witness ==
  \E t \in Thr :
    /\ Rendered(t)
    /\ ~th[t].early
    /\ th[t].predicted > 0
    /\ Len(th[t].buf) # th[t].predicted
    /\ th[t].ctx # "render"

\* C20: compile executes the plan once against the original root and feeds
\* that size to the sizer, so that the first Render of a tree with non-empty
\* output already reads a predicted size above 0.
C20_FirstRenderPredicts ==
  \A t \in Thr :
    (/\ Executed(t)
     /\ th[t].early
     /\ th[t].root = compiledRoot
     /\ RenderBuilder(th[t].root) # <<>>) =>
      th[t].predicted > 0

\* ------------------------------- the claims on destinations and buffers

RECURSIVE Concat(_)
\* The byte sequences of ws one after the other.
Concat(ws) == IF ws = <<>> THEN <<>> ELSE Head(ws) \o Concat(Tail(ws))

\* C21: a Render with a destination returns nil and passes to the
\* destination's Write exactly the bytes the same call without a destination
\* returns (all of which a Write that succeeds takes); a Render without a
\* destination returns those bytes and writes nowhere.
C21_DestinationOrBytes ==
  \A t \in Thr :
    (Rendered(t) /\ ~th[t].plan.nil) =>
      LET out == Contributions(th[t].plan, th[t].root, 1)
      IN  IF th[t].w
            THEN /\ io[t].ret.nil
                 /\ Concat(io[t].writes) = out
                 /\ Len(io[t].writes) <= 1
                 /\ ~io[t].failed => io[t].dest = out
            ELSE /\ ~io[t].ret.nil
                 /\ io[t].ret.bytes = out
                 /\ io[t].writes = <<>>
                 /\ io[t].dest = <<>>

\* A Render with a destination has returned after writing static and dynamic
\* bytes to it.
C21_Witness ==
  \E t \in Thr :
    /\ Rendered(t)
    /\ th[t].w
    /\ ~FullyStatic(th[t].root)
    /\ io[t].dest = RenderBuilder(th[t].root)
    /\ io[t].dest # <<>>

\* C22: when Render returns, and when compile returns, every buffer the call
\* drew from the pool has been put back, once for each draw, whether the
\* destination's Write succeeded or failed; a buffer is never in the pool
\* while a call holds it.
C22_BuffersReturnedOnce ==
  \A t \in Thr :
    /\ Len(io[t].gave) <= Len(io[t].got)
    /\ io[t].held # 0 => io[t].held \notin pool
    /\ (th[t].op = "Render" /\ th[t].pc \in {"exec", "done"}) =>
         /\ io[t].held = 0
         /\ io[t].gave = io[t].got
         /\ \A i \in 1..Len(io[t].gave) : io[t].gave[i] \in pool

\* A Render that built the plan and whose destination failed has returned:
\* it drew a buffer in compile and one for the write.
C22_Witness ==
  \E t \in Thr :
    /\ Rendered(t)
    /\ io[t].failed
    /\ Len(io[t].got) = 2

\* A call of Compiler.Render, jit.Tune or jit.Compile has returned to
\* goroutine t.
Returned(t) == th[t].op \in {"Render", "Tune", "Compile"} /\ th[t].pc = "done"

\* C23: the bytes a Render operation returned are not backed by a buffer that
\* lies in the pool or that another call has drawn from it, and the caller
\* goes on reading in them the bytes it was returned.
C23_NoPooledBytes ==
  \A t \in Thr :
    (Returned(t) /\ ~io[t].ret.nil) =>
      /\ io[t].ret.backing # 0 =>
           /\ io[t].ret.backing \notin pool
           /\ \A u \in Thr : io[u].held # io[t].ret.backing
      /\ View(io[t].ret) = io[t].ret.bytes

\* C24: a call jit.Tune(id, n) that has returned has returned, or passed to its
\* destination, the rendering of the n passed to that call.
C24_TuneRendersItsNode ==
  \A t \in Thr :
    (Returned(t) /\ th[t].op = "Tune") =>
      (IF th[t].w THEN Concat(io[t].writes) ELSE io[t].ret.bytes)
        = RenderBuilder(th[t].root)

\* ------------------------------------------------ the claims on the registry

\* The Compilers ever stored under id.
CompilersOf(id) ==
  {i \in 1..Len(heap) : heap[i].kind = "Compiler" /\ heap[i].id = id}

\* C25: on a registry that starts without entries and is neither reset nor
\* reconfigured, all jit.Compile calls with one id, concurrent first calls
\* included, render through the same Compiler, the one the map holds, and
\* exactly one plan is built for the id.
C25_CreateIfAbsent ==
  /\ \A id \in Ids : Cardinality(CompilersOf(id)) <= 1
  /\ \A i \in 1..Len(heap) : heap[i].compiles <= 1
  /\ \A t \in Thr :
       (th[t].op = "Compile" /\ th[t].pc \in {"conce", "cexec", "done"}) =>
         /\ io[t].inst # 0
         /\ io[t].inst = registry.compilers[io[t].id]
  /\ \A t \in Thr :
       (Returned(t) /\ th[t].op = "Compile") =>
         /\ heap[io[t].inst].compiles = 1
         /\ th[t].plan = BuildPlan(heap[io[t].inst].compiledRoot)

\* Two calls with the same id and different trees both found no entry, one
\* of them stored the Compiler, and both have returned.
C25_Witness ==
  \E t, u \in Thr :
    /\ t # u
    /\ Returned(t) /\ th[t].op = "Compile" /\ th[t].early
    /\ Returned(u) /\ th[u].op = "Compile" /\ th[u].early
    /\ io[t].id = io[u].id
    /\ th[t].root # th[u].root
    /\ io[t].stored /\ ~io[u].stored
    /\ io[t].inst = io[u].inst

\* The last call of the history, and whether it was op and has returned.
LastCall == log[Len(log)]
LastReturned(op) ==
  /\ log # <<>>
  /\ LastCall.op = op
  /\ th[1].op = op
  /\ th[1].pc = "done"

\* The calls before the last one that set or removed the entry of id in the
\* map the ops act on.
Touching(ops, id) ==
  {k \in 1..(Len(log) - 1) :
     log[k].op \in ops /\ (id \in log[k].ids \/ log[k].ids = {})}

\* The trees of the plans ever built for id.
BuiltFor(h, id) ==
  {h[i].compiledRoot : i \in {j \in 1..Len(h) :
     h[j].kind = "Compiler" /\ h[j].id = id /\ h[j].compiles > 0}}

\* C26: ResetCompile(ids...) removes the named entries and no other, with no
\* argument it removes all, it changes no Compiler and no Tuner and no entry
\* of another map; and a Compile that finds the entry of its id removed builds
\* a new Compiler whose plan is that of the node passed to this call.
C26_ResetCompile ==
  /\ LastReturned("ResetCompile") =>
       /\ \A id \in Ids :
            registry.compilers[id] =
              IF LastCall.ids = {} \/ id \in LastCall.ids
                THEN 0 ELSE LastCall.registry.compilers[id]
       /\ registry.tuners = LastCall.registry.tuners
       /\ registry.flattened = LastCall.registry.flattened
       /\ heap = LastCall.heap
  /\ \A id \in Ids :
       (/\ LastReturned("Compile")
        /\ LastCall.ids = {id}
        /\ Touching({"ResetCompile", "CompileConfig", "Compile"}, id) # {}
        /\ log[Greatest(Touching({"ResetCompile", "CompileConfig", "Compile"}, id))].op
             = "ResetCompile") =>
         /\ io[1].inst = Len(LastCall.heap) + 1
         /\ registry.compilers[id] = io[1].inst
         /\ heap[io[1].inst].compiles = 1
         /\ heap[io[1].inst].plan = BuildPlan(th[1].root)
         /\ th[1].buf = RenderBuilder(th[1].root)

\* The entry of one id was removed while the other id kept its Compiler with
\* its plan.
C26_OtherKept ==
  /\ LastReturned("ResetCompile")
  /\ \E id, other \in Ids :
       /\ LastCall.ids = {id}
       /\ LastCall.registry.compilers[id] # 0
       /\ registry.compilers[id] = 0
       /\ registry.compilers[other] # 0
       /\ heap[registry.compilers[other]].compiles = 1

\* After a plan was built for an id and the id reset, a Compile with another
\* tree has built the plan of that tree.
C26_Witness ==
  /\ LastReturned("Compile")
  /\ Len(log) > 1
  /\ \E id \in Ids :
       /\ LastCall.ids = {id}
       /\ log[Len(log) - 1].op = "ResetCompile"
       /\ BuiltFor(heap, id) = CompileTrees

\* C29: a Compile whose id was last set by CompileConfig(id, cfg) renders
\* through the Compiler that call stored, whose threshold and sizer
\* parameters are those of cfg; likewise a Tune after TuneConfig(id, cfg).
C29_ConfigUsed ==
  /\ \A id \in Ids :
       LET ks == Touching({"ResetCompile", "CompileConfig", "Compile"}, id)
       IN  (/\ LastReturned("Compile")
            /\ LastCall.ids = {id}
            /\ ks # {}
            /\ log[Greatest(ks)].op = "CompileConfig") =>
             LET c == log[Greatest(ks)].arg[1]
                 i == Len(log[Greatest(ks)].heap) + 1
             IN  /\ io[1].inst = i
                 /\ heap[i].threshold = c.Threshold
                 /\ heap[i].sizer.max = c.Max
                 /\ heap[i].sizer.variance = c.Variance
                 /\ heap[i].sizer.growthFactor = c.GrowthFactor
  /\ \A id \in Ids :
       LET ks == Touching({"ResetTune", "TuneConfig", "Tune"}, id)
       IN  (/\ LastReturned("Tune")
            /\ LastCall.ids = {id}
            /\ ks # {}
            /\ log[Greatest(ks)].op = "TuneConfig") =>
             LET c == log[Greatest(ks)].arg[1]
                 i == Len(log[Greatest(ks)].heap) + 1
             IN  /\ io[1].inst = i
                 /\ heap[i].sizer.max = c.Max
                 /\ heap[i].sizer.variance = c.Variance
                 /\ heap[i].sizer.growthFactor = c.GrowthFactor

\* A Compile has rendered through a Compiler stored by CompileConfig with a
\* threshold, a sample count, a variance and a growth factor that are not the
\* defaults.
C29_Witness ==
  /\ LastReturned("Compile")
  /\ Len(log) > 1
  /\ log[Len(log) - 1].op = "CompileConfig"
  /\ log[Len(log) - 1].ids = LastCall.ids
  /\ heap[io[1].inst].cfg # <<>>
  /\ heap[io[1].inst].compiles = 1
  /\ heap[io[1].inst].threshold # DefaultThreshold
  /\ heap[io[1].inst].sizer.max # DefaultMax
  /\ heap[io[1].inst].sizer.variance # DefaultVariance
  /\ heap[io[1].inst].sizer.growthFactor # DefaultGrowthFactor

\* What a call delivered: the bytes passed to its destination, or the bytes
\* it returned.
Delivered(t) == IF th[t].w THEN Concat(io[t].writes) ELSE io[t].ret.bytes

\* C27 as stated: a Flatten with a node with dynamic content delivers the
\* rendering of that node and leaves the registry as it found it, whatever is
\* stored under the id.
C27_Original ==
  (LastReturned("Flatten") /\ ~FullyStatic(th[1].root)) =>
    /\ Delivered(1) = RenderBuilder(th[1].root)
    /\ registry = LastCall.registry

\* C27: a Flatten with a node with dynamic content returns no error and
\* stores nothing; with nothing stored under the id it delivers the rendering
\* of the node, with bytes stored under the id it delivers those bytes.
C27_DynamicNeverStored ==
  (LastReturned("Flatten") /\ ~FullyStatic(th[1].root)) =>
    LET found == LastCall.registry.flattened[io[1].id]
    IN  /\ io[1].err = ""
        /\ registry = LastCall.registry
        /\ heap = LastCall.heap
        /\ ~io[1].stored
        /\ Delivered(1) = IF found = <<>> THEN RenderBuilder(th[1].root)
                                          ELSE found[1]
        /\ th[1].w => io[1].ret.nil
        /\ ~th[1].w => (~io[1].ret.nil /\ io[1].writes = <<>>)

\* A Flatten with a node with dynamic content has delivered the bytes stored
\* under its id, which are not the rendering of the node.
C27_Witness ==
  /\ LastReturned("Flatten")
  /\ ~FullyStatic(th[1].root)
  /\ LastCall.registry.flattened[io[1].id] # <<>>
  /\ Delivered(1) = LastCall.registry.flattened[io[1].id][1]
  /\ Delivered(1) # RenderBuilder(th[1].root)

\* The calls of NewFlattener that returned the Flattener at position i.
MadeBy(i) ==
  {k \in 1..Len(log) : log[k].op = "NewFlattener" /\ Len(log[k].heap) + 1 = i
                        /\ FullyStatic(log[k].arg[1])}

\* C28: NewFlattener(n) returns ErrDynamicContent and no Flattener exactly
\* when some node of n is dynamic, a function component with a static result
\* included; otherwise it returns a Flattener and no error, and every Render
\* of that Flattener delivers the direct rendering of n.
C28_NewFlattener ==
  /\ LastReturned("NewFlattener") =>
       /\ (io[1].err = "ErrDynamicContent") <=> ~FullyStatic(th[1].root)
       /\ (io[1].err = "") <=> FullyStatic(th[1].root)
       /\ io[1].err # "" => (io[1].inst = 0 /\ heap = LastCall.heap)
       /\ io[1].err = "" =>
            /\ io[1].inst = Len(LastCall.heap) + 1
            /\ Len(heap) = Len(LastCall.heap) + 1
            /\ heap[io[1].inst].kind = "Flattener"
       /\ registry = LastCall.registry
  /\ LastReturned("FlattenerRender") =>
       /\ MadeBy(io[1].inst) # {}
       /\ \A k \in MadeBy(io[1].inst) :
            /\ Delivered(1) = RenderBuilder(log[k].arg[1])
            /\ th[1].w => (io[1].ret.nil /\ (~io[1].failed =>
                             io[1].dest = RenderBuilder(log[k].arg[1])))
            /\ ~th[1].w => (~io[1].ret.nil /\ io[1].writes = <<>>)

\* A Flattener made from a nested static tree has rendered to a destination.
C28_Witness ==
  /\ LastReturned("FlattenerRender")
  /\ th[1].w
  /\ \E k \in MadeBy(io[1].inst) :
       /\ log[k].arg[1].kids # <<>>
       /\ log[k].arg[1].kids[1].kids # <<>>
       /\ io[1].dest = RenderBuilder(log[k].arg[1])
       /\ io[1].dest # <<>>

RECURSIVE SubNodes(_)
\* n and its descendants at every depth.
SubNodes(n) ==
  {n} \cup UNION {SubNodes(n.kids[i]) : i \in 1..Len(n.kids)}

\* C30: for the node n given to NewFlattener, isDynamic(n) holds exactly when
\* n or a descendant at some depth is a dynamic node; isDynamicNode of a node
\* does not depend on its children, is false for an element or fragment that
\* is not dynamic itself even if all its children are, and is true for every
\* function component and conditional builder.
C30_IsDynamic ==
  (th[1].op = "NewFlattener") =>
    /\ isDynamic(th[1].root) <=>
         \E d \in SubNodes(th[1].root) : isDynamicNode(d)
    /\ \A d \in SubNodes(th[1].root) :
         /\ isDynamicNode(d) <=> isDynamicNode([d EXCEPT !.kids = <<>>])
         /\ (d.kind \in {"elem", "frag"} /\ ~d.dyn) => ~isDynamicNode(d)
         /\ d.kind \in {"func", "cond"} => isDynamicNode(d)
         /\ d.kind = "text" => (isDynamicNode(d) <=> d.dyn)

\* NewFlattener has rejected an element that is not a dynamic node, has no
\* child that is a dynamic node, and has a dynamic node further down, beside
\* an element whose children are all dynamic.
C30_Witness ==
  /\ LastReturned("NewFlattener")
  /\ io[1].err = "ErrDynamicContent"
  /\ ~isDynamicNode(th[1].root)
  /\ \A i \in 1..Len(th[1].root.kids) : ~isDynamicNode(th[1].root.kids[i])
  /\ \E d \in SubNodes(th[1].root) :
       /\ d.kind = "elem"
       /\ d.kids # <<>>
       /\ ~isDynamicNode(d)
       /\ \A i \in 1..Len(d.kids) : isDynamicNode(d.kids[i])

RECURSIVE TopDynamic(_)
\* The positions (child indices from n) of the dynamic nodes of n that have no
\* dynamic proper ancestor.
TopDynamic(n) ==
  IF DynamicHere(n) THEN {<<>>}
  ELSE UNION {{<<i - 1>> \o p : p \in TopDynamic(n.kids[i])} :
                i \in 1..Len(n.kids)}

RECURSIVE BelowDynamic(_, _)
\* n has a dynamic node with a dynamic proper ancestor (under tells whether an
\* ancestor of n is dynamic).
BelowDynamic(n, under) ==
  \/ under /\ DynamicHere(n)
  \/ \E i \in 1..Len(n.kids) : BelowDynamic(n.kids[i], under \/ DynamicHere(n))

\* The positions of the DynamicPath elements of a plan.
PathElements(plan) ==
  {i \in 1..Len(plan.Elements) : plan.Elements[i].type = "DynamicPath"}

\* p is a proper prefix of q.
ProperPrefix(p, q) == Len(p) < Len(q) /\ SubSeq(q, 1, Len(p)) = p

\* C31: the plan built has exactly one DynamicPath for each dynamic node
\* without a dynamic proper ancestor, none for any other node, and no stored
\* path is a proper prefix of another.
C31_NoDescentBelowDynamic ==
  ~executionPlan.nil =>
    LET at == PathElements(executionPlan)
        stored(i) == executionPlan.Elements[i].Path
    IN  /\ {stored(i) : i \in at} = TopDynamic(compiledRoot)
        /\ Cardinality(at) = Cardinality(TopDynamic(compiledRoot))
        /\ \A i, j \in at : ~ProperPrefix(stored(i), stored(j))

\* A plan was built from a tree with a dynamic node below a dynamic node.
C31_Witness ==
  /\ ~executionPlan.nil
  /\ BelowDynamic(compiledRoot, FALSE)
  /\ PathElements(executionPlan) # {}

\* One item of the layout of a tree: a static token, or the place of a dynamic
\* node with its position.
StaticItem(tok) == [dyn |-> FALSE, tok |-> tok, path |-> <<>>]
DynamicItem(path) == [dyn |-> TRUE, tok |-> <<"", "">>, path |-> path]

RECURSIVE Layout(_, _)
RECURSIVE LayoutAll(_, _, _)
\* The layouts of the children ks[i..] of the node at path, in index order.
LayoutAll(ks, i, path) ==
  IF i > Len(ks) THEN <<>>
  ELSE Layout(ks[i], Append(path, i - 1)) \o LayoutAll(ks, i + 1, path)

\* The order of the output of the tree n standing at path: a dynamic node is
\* one place; an element is its opening tag, its children in index order, its
\* closing tag; a fragment is its children only.
Layout(n, path) ==
  IF DynamicHere(n) THEN <<DynamicItem(path)>>
  ELSE IF n.kind = "text" THEN <<StaticItem(<<"text", n.tag>>)>>
  ELSE IF n.kind = "elem"
    THEN <<StaticItem(<<"open", n.tag>>)>> \o LayoutAll(n.kids, 1, path)
           \o <<StaticItem(<<"close", n.tag>>)>>
  ELSE LayoutAll(n.kids, 1, path)

RECURSIVE Expand(_, _)
\* The elements es[i..] of a plan as a layout: the bytes of every
\* StaticContent one by one, and every DynamicPath as one place.
Expand(es, i) ==
  IF i > Len(es) THEN <<>>
  ELSE (IF es[i].type = "StaticContent"
          THEN [k \in 1..Len(es[i].Content) |-> StaticItem(es[i].Content[k])]
          ELSE <<DynamicItem(es[i].Path)>>) \o Expand(es, i + 1)

\* The number of maximal runs of static items in a layout.
StaticRuns(l) ==
  Cardinality({i \in 1..Len(l) : ~l[i].dyn /\ (i = 1 \/ l[i - 1].dyn)})

\* C33: in every plan built no StaticContent is empty, no two StaticContent
\* elements are adjacent, and there are as many StaticContent elements as the
\* output of the tree has maximal runs of static bytes: the bytes between two
\* consecutive dynamic nodes are one element, from whichever sibling or nested
\* subtrees they come.
C33_StaticRunsMerged ==
  ~executionPlan.nil =>
    LET es == executionPlan.Elements
        statics == {i \in 1..Len(es) : es[i].type = "StaticContent"}
    IN  /\ \A i \in statics : es[i].Content # <<>>
        /\ \A i \in statics : (i + 1) \notin statics
        /\ Cardinality(statics) = StaticRuns(Layout(compiledRoot, <<>>))

\* A plan holds, between two DynamicPath elements, one StaticContent with the
\* opening tag of a nested element and the bytes of its first child.
C33_Witness ==
  /\ ~executionPlan.nil
  /\ \E i \in 2..(Len(executionPlan.Elements) - 1) :
       /\ executionPlan.Elements[i].type = "StaticContent"
       /\ Len(executionPlan.Elements[i].Content) >= 2
       /\ executionPlan.Elements[i].Content[1][1] = "open"
       /\ executionPlan.Elements[i].Content[2][1] = "text"
       /\ executionPlan.Elements[i - 1].type = "DynamicPath"
       /\ executionPlan.Elements[i + 1].type = "DynamicPath"

\* C34: the plan built has the byte order of the tree: for a node that is not
\* dynamic, the opening tag of an element, then the contributions of its
\* children in child-index order, then its closing tag; a fragment has no
\* bytes of its own, only its children's contributions in order.
C34_ByteOrder ==
  ~executionPlan.nil =>
    Expand(executionPlan.Elements, 1) = Layout(compiledRoot, <<>>)

\* A plan was built from an element with a static child, a fragment with a
\* dynamic and a static child, and another static child.
C34_Witness ==
  /\ ~executionPlan.nil
  /\ compiledRoot.kind = "elem"
  /\ \E i \in 1..Len(compiledRoot.kids) :
       /\ compiledRoot.kids[i].kind = "frag"
       /\ i > 1
       /\ i < Len(compiledRoot.kids)
       /\ \E j, k \in 1..Len(compiledRoot.kids[i].kids) :
            /\ DynamicHere(compiledRoot.kids[i].kids[j])
            /\ FullyStatic(compiledRoot.kids[i].kids[k])

\* Goroutine t has built a plan with the walk whose slices are followed.
Walked(t) == th[t].op = "compile" /\ th[t].pc = "done"

\* C32: after the plan is built every stored path reads the indices it was
\* recorded with, which lead from the root to the dynamic node it was
\* recorded at, whatever was appended to the shared prefix afterwards; read
\* this way the plan is the one the walk over path values builds.
C32_DefensiveCopy ==
  \A t \in Thr :
    Walked(t) =>
      /\ \A i \in 1..Len(io[t].paths) :
           LET e == io[t].paths[i]
           IN  e.type = "DynamicPath" =>
                 /\ Read(io[t].arrays, e.Path) = e.was
                 /\ Reachable(th[t].root, th[t].plan.Elements[i].Path)
                 /\ NodeAt(th[t].root, th[t].plan.Elements[i].Path) = e.node
                 /\ DynamicHere(e.node)
                 /\ \A j \in 1..Len(io[t].paths) :
                      (j # i /\ io[t].paths[j].type = "DynamicPath") =>
                        io[t].paths[j].Path.arr # e.Path.arr
      /\ th[t].plan = BuildPlan(th[t].root)

\* A plan was built in which the slice a stored path was copied from has
\* since been overwritten by the index of a later sibling.
C32_Witness ==
  \E t \in Thr :
    /\ Walked(t)
    /\ \E i \in 1..Len(io[t].paths) :
         /\ io[t].paths[i].type = "DynamicPath"
         /\ Read(io[t].arrays, io[t].paths[i].from) # io[t].paths[i].was
         /\ Read(io[t].arrays, io[t].paths[i].Path) = io[t].paths[i].was

RECURSIVE Total(_)
\* The total of a sequence of sizes.
Total(q) == IF q = <<>> THEN 0 ELSE Head(q) + Total(Tail(q))

\* C35: whenever no goroutine holds the sizer's lock, count is the number and
\* sum the total of the samples counted in since the sampling run last
\* started (at construction, by Reset, by Configure or by a revert, whose
\* size is the first sample of its run), under every interleaving of
\* UpdateStats, Reset and Configure.
C35_SumCountAsGroup ==
  mu = 0 => (count = Len(log) /\ sum = Total(log))

\* A goroutine inside sample has added its size to sum and not yet counted
\* it, while another goroutine waits for the lock to revert, reset or
\* configure.
C35_Witness ==
  \E t, u \in Thr :
    /\ th[t].pc = "s.count"
    /\ mu = t
    /\ sum # Total(log)
    /\ th[u].pc \in {"revert", "reset", "cfg"}

\* C36: a goroutine's revert takes the sizer out of Baseline phase only if
\* its size deviates by more than the variance from the baseline published
\* at that moment.
C36_RevertAgainstCurrent ==
  [][\A t \in Thr :
       (th[t].pc = "revert" /\ th'[t].pc # "revert" /\ active = 0
          /\ active' = 1) =>
         (baseline # 0 /\ Dist(th[t].size, baseline) * 100 > baseline * variance)]_vars

\* C37: with maxSamples >= 1, whenever no sizer operation is in progress and
\* the phase is Sampling, sampleCount < maxSamples, also in a run started by a
\* variance-triggered revert.
C37_SamplingBelowMax ==
  (Quiet /\ max >= 1 /\ active = 1) => count < max

\* C38: if from some point on every size fed to UpdateStats is the same
\* constant s, the sizer eventually enters Baseline phase with
\* baseline = floor(s * growthFactorPct / 100) and never leaves it again.
C38_ConstantSettles ==
  <>[](/\ ~Varied
       /\ active = 0
       /\ baseline = (log[1] * growthFactor) \div 100)

\* C39 as stated: in a Compiler that keeps receiving Render calls, a sizer in
\* Sampling phase always returns to Baseline phase.
C39_SamplingEnds == (active = 1) ~> (active = 0)

\* A Render's size has been handed to the sizer as a sample.
Fed == \E t \in Thr : th[t].pc = "sample" /\ th[t].ctx = "render"

\* C39, amended: when Renders keep being fed to the sizer (the predicted size
\* is 0, or the size deviates from the baseline still published by more than
\* the update threshold), a sizer in Sampling phase returns to Baseline phase.
C39_FedSamplingEnds == ([]<>Fed) => ((active = 1) ~> (active = 0))

\* A Render that read the baseline of before a revert was fed and completed
\* the run the revert started: a new baseline is published when it returns.
C39_Witness ==
  /\ th[1].op = "Render" /\ th[1].pc = "done" /\ th[1].ctx = "render"
  /\ th[1].predicted # 0
  /\ active = 0
  /\ baseline # th[1].predicted

====
